---- MODULE Spec2Model ----
(***************************************************************************)
(* FileVault: the MFA-gated authentication state machine, the admin       *)
(* operations and the file download pipeline, as state machines over the  *)
(* record store (users, files), the blob store, the issued JWTs and the    *)
(* clock.  Time is counted in minutes: 2*60*60*1000 ms = 120, '5m' = 5,    *)
(* '1d' = 1440.                                                            *)
(***************************************************************************)
EXTENDS Integers, Sequences, FiniteSets, TLC

VARIABLES
    users,          \* User collection: sequence of documents, _id = index
    tokens,         \* JWTs signed so far (clients may present any of them)
    now,            \* Date.now(), in minutes
    auditUp,        \* whether the AuditLog collection accepts writes
    files,          \* File collection: sequence of documents, _id = index
    blobs,          \* uploads directory: encryptedPath -> stored bytes
    reg,            \* register requests in flight (interleaved handlers)
    jobs,           \* file requests in flight (interleaved handlers)
    orig,           \* history: what each upload stored
    last,           \* the most recent request and its response
    pwPassed,       \* history: accounts that passed login with their password
    mfaPassed,      \* history: accounts that then passed verifyMFA
    mfaFailedWith,  \* history: pending tokens presented with an invalid code
    run,            \* history: wrong-password logins since counter 0, unlocked
    adminAsks       \* history: register calls so far, if all asked for admin

vars == <<users, tokens, now, auditUp, files, blobs, reg, jobs, orig, adminAsks, last, pwPassed, mfaPassed,
          mfaFailedWith, run>>

----------------------------------------------------------------------------
(* Bounds *)
MaxUsers == 2
MaxTokens == 3
MaxAsks == 5
MaxFiles == 2
MaxDownloads == 1
MaxJobs == 2
MaxShares == 1

(* Program constants *)
LOCK_TIME == 120
MAX_LOGIN_ATTEMPTS == 5
MFA_TOKEN_TTL == 5
ACCESS_TOKEN_TTL == 1440
MIN_PASSWORD_LENGTH == 8

None == -1
Roles == {"admin", "premium", "guest"}

----------------------------------------------------------------------------
(* JWTs *)
NoToken == [sig |-> "none", id |-> 0, mfaPending |-> FALSE, role |-> "none", exp |-> 0]
ForgedToken == [sig |-> "bad", id |-> 1, mfaPending |-> FALSE, role |-> "admin", exp |-> 100000]

mfaToken(id) ==
    [sig |-> "valid", id |-> id, mfaPending |-> TRUE, role |-> "none",
     exp |-> now + MFA_TOKEN_TTL]

accessToken(id, role) ==
    [sig |-> "valid", id |-> id, mfaPending |-> FALSE, role |-> role,
     exp |-> now + ACCESS_TOKEN_TTL]

jwtVerify_lateExpiry(tok) ==
    IF tok.sig # "valid" THEN "JsonWebTokenError"
    ELSE IF now > tok.exp THEN "TokenExpiredError"
    ELSE "ok"

jwtVerify(tok) ==
    IF tok.sig # "valid" THEN "JsonWebTokenError"
    ELSE IF now >= tok.exp THEN "TokenExpiredError"
    ELSE "ok"

Presentable == tokens \cup {NoToken, ForgedToken}

CanIssue(tok) == tok \in tokens \/ Cardinality(tokens) < MaxTokens

----------------------------------------------------------------------------
(* User model *)
Hash(p) == [bcrypt |-> p]

NewUser(username, email, password, role) ==
    [username |-> username, email |-> email, password |-> Hash(password),
     role |-> role, mfaVerified |-> FALSE, encryptionSalt |-> TRUE,
     loginAttempts |-> 0, lockUntil |-> None, lastLogin |-> None]

NoUser == NewUser("", "", "", "none")

comparePassword(u, candidate) == Hash(candidate) = u.password

isLocked_inverted(u) == u.lockUntil # None /\ u.lockUntil < now

isLocked(u) == u.lockUntil # None /\ u.lockUntil > now

incrementLoginAttempts_offByOne(u) ==
    IF u.lockUntil # None /\ u.lockUntil < now
    THEN [u EXCEPT !.loginAttempts = 1, !.lockUntil = None]
    ELSE IF u.loginAttempts >= MAX_LOGIN_ATTEMPTS
         THEN [u EXCEPT !.loginAttempts = @ + 1, !.lockUntil = now + LOCK_TIME]
         ELSE [u EXCEPT !.loginAttempts = @ + 1]

incrementLoginAttempts(u) ==
    IF u.lockUntil # None /\ u.lockUntil < now
    THEN [u EXCEPT !.loginAttempts = 1, !.lockUntil = None]
    ELSE IF u.loginAttempts + 1 >= MAX_LOGIN_ATTEMPTS
         THEN [u EXCEPT !.loginAttempts = @ + 1, !.lockUntil = now + LOCK_TIME]
         ELSE [u EXCEPT !.loginAttempts = @ + 1]

FindByEmail(email) ==
    IF \E i \in DOMAIN users : users[i].email = email
    THEN CHOOSE i \in DOMAIN users : users[i].email = email
    ELSE 0

----------------------------------------------------------------------------
(* Requests and responses *)
Audit(action, status) == [action |-> action, status |-> status]

(* what a file response carries besides its status *)
NoBody == [plain |-> <<>>, encryptedFile |-> <<>>, encryptedAESKey |-> <<>>,
           iv |-> 0, authTag |-> <<>>, sha256Hash |-> <<>>]

(* no File document *)
NoFile == [encryptedPath |-> 0, owner |-> 0, accessLevel |-> "none", iv |-> 0,
           authTag |-> <<>>, fileSalt |-> <<>>,
           encryptedKey |-> [encryptedData |-> <<>>, iv |-> 0, authTag |-> <<>>],
           keyExchangeEnabled |-> FALSE, sha256Hash |-> <<>>, shareToken |-> 0,
           shareExpiry |-> None, downloadCount |-> 0, isDeleted |-> FALSE,
           deletedAt |-> None]

R0 == [op |-> "none", status |-> 0, uid |-> 0, time |-> 0, token |-> NoToken,
       issued |-> NoToken, pwOk |-> FALSE, code |-> "", pre |-> NoUser,
       audit |-> <<>>, role |-> "none", adminBefore |-> FALSE,
       taken |-> FALSE, fid |-> 0, password |-> "", body |-> NoBody,
       derivedKey |-> FALSE, readBlob |-> FALSE, file |-> NoFile,
       blob |-> <<>>, ownerSalt |-> FALSE, gone |-> FALSE,
       publicKey |-> "", shareToken |-> 0,
       minutes |-> [given |-> FALSE, value |-> 0], info |-> {},
       accessLevel |-> "", listed |-> <<>>, total |-> 0]

Req(op) == [R0 EXCEPT !.op = op, !.time = now]

(* history of consecutive wrong-password logins, read off the stored account *)
RunAfter(us, uid, wrongLogin) ==
    [i \in DOMAIN us |->
        IF i \notin DOMAIN run \/ (us[i].loginAttempts = 0 /\ us[i].lockUntil = None)
        THEN 0
        ELSE IF i = uid /\ wrongLogin
             THEN (IF run[i] < MAX_LOGIN_ATTEMPTS + 1 THEN run[i] + 1 ELSE run[i])
             ELSE run[i]]

----------------------------------------------------------------------------
(* authMiddleware *)
Deny(status) == [status |-> status, uid |-> 0]

verifyToken_signatureUnchecked(tok) ==
    IF tok = NoToken THEN Deny(401)
    ELSE IF now >= tok.exp THEN Deny(401)
    ELSE IF tok.mfaPending THEN Deny(403)
    ELSE IF tok.id \notin DOMAIN users THEN Deny(401)
    ELSE IF isLocked(users[tok.id]) THEN Deny(423)
    ELSE [status |-> 0, uid |-> tok.id]

verifyToken_noPendingCheck(tok) ==
    IF tok = NoToken THEN Deny(401)
    ELSE IF jwtVerify(tok) # "ok" THEN Deny(401)
    ELSE IF tok.id \notin DOMAIN users THEN Deny(401)
    ELSE IF isLocked(users[tok.id]) THEN Deny(423)
    ELSE [status |-> 0, uid |-> tok.id]

verifyToken(tok) ==
    IF tok = NoToken THEN Deny(401)
    ELSE IF jwtVerify(tok) # "ok" THEN Deny(401)
    ELSE IF tok.mfaPending THEN Deny(403)
    ELSE IF tok.id \notin DOMAIN users THEN Deny(401)
    ELSE IF isLocked(users[tok.id]) THEN Deny(423)
    ELSE [status |-> 0, uid |-> tok.id]

verifyMFAToken(tok) ==
    IF tok = NoToken THEN Deny(401)
    ELSE IF jwtVerify(tok) # "ok" THEN Deny(401)
    ELSE IF ~tok.mfaPending THEN Deny(400)
    ELSE IF tok.id \notin DOMAIN users THEN Deny(401)
    ELSE [status |-> 0, uid |-> tok.id]

----------------------------------------------------------------------------
(* aclMiddleware *)
ACL_RULES ==
    [x \in {"system-logs", "user-management"} |->
        [read |-> {"admin"}, write |-> {"admin"}, delete |-> {"admin"}]]
    @@ ("encrypted-vault" :>
        [read |-> {"admin", "premium"}, write |-> {"admin", "premium"},
         delete |-> {"admin", "premium"}])
    @@ ("public-repository" :>
        [read |-> {"admin", "premium", "guest"}, write |-> {"admin", "premium"},
         delete |-> {"admin"}])
    @@ ("own-profile" :>
        [read |-> {"admin", "premium", "guest"},
         write |-> {"admin", "premium", "guest"}, delete |-> {}])

logDeniedAccess == <<Audit("ACCESS_DENIED", "DENIED")>>

Pass == [status |-> 0, audit |-> <<>>]

verifyRole_tokenRole(allowedRoles, uid) ==
    IF uid = 0 THEN [status |-> 401, audit |-> logDeniedAccess]
    ELSE IF \A t \in tokens : (t.id = uid /\ ~t.mfaPending) => t.role \notin allowedRoles
         THEN [status |-> 403, audit |-> logDeniedAccess]
         ELSE Pass

verifyRole(allowedRoles, uid) ==
    IF uid = 0 THEN [status |-> 401, audit |-> logDeniedAccess]
    ELSE IF users[uid].role \notin allowedRoles
         THEN [status |-> 403, audit |-> logDeniedAccess]
         ELSE Pass

verifyResourceAccess(resource, action, uid) ==
    IF uid = 0 THEN [status |-> 401, audit |-> logDeniedAccess]
    ELSE IF resource \notin DOMAIN ACL_RULES THEN [status |-> 500, audit |-> <<>>]
    ELSE IF users[uid].role \notin ACL_RULES[resource][action]
         THEN [status |-> 403, audit |-> logDeniedAccess]
         ELSE Pass

(* router.use(verifyToken); router.use(verifyRole(['admin']));             *)
(* verifyResourceAccess('user-management', 'write')                        *)
adminGate(tok) ==
    LET g == verifyToken(tok) IN
    IF g.status # 0 THEN [status |-> g.status, uid |-> 0, audit |-> <<>>]
    ELSE LET r == verifyRole({"admin"}, g.uid) IN
         IF r.status # 0 THEN [status |-> r.status, uid |-> g.uid, audit |-> r.audit]
         ELSE LET a == verifyResourceAccess("user-management", "write", g.uid) IN
              [status |-> a.status, uid |-> g.uid, audit |-> a.audit]

----------------------------------------------------------------------------
(* authController *)
AuthHistUnchanged == UNCHANGED <<pwPassed, mfaPassed, mfaFailedWith>>

login(email, password) ==
    LET uid == FindByEmail(email)
        u == IF uid # 0 THEN users[uid] ELSE NoUser
        req == [Req("login") EXCEPT !.uid = uid, !.pre = u,
                    !.pwOk = (uid # 0 /\ Hash(password) = u.password)]
    IN
    IF email = "" \/ password = ""
    THEN /\ last' = [Req("login") EXCEPT !.status = 400]
         /\ UNCHANGED <<users, tokens, now, auditUp, files, blobs, reg, jobs, orig, adminAsks, run>>
         /\ AuthHistUnchanged
    ELSE IF uid = 0
    THEN /\ last' = [req EXCEPT !.status = 401]
         /\ UNCHANGED <<users, tokens, now, auditUp, files, blobs, reg, jobs, orig, adminAsks, run>>
         /\ AuthHistUnchanged
    ELSE IF isLocked(u)
    THEN /\ last' = [req EXCEPT !.status = 423,
                        !.audit = <<Audit("LOGIN_FAILED", "DENIED")>>]
         /\ run' = RunAfter(users, uid, ~req.pwOk)
         /\ UNCHANGED <<users, tokens, now, auditUp, files, blobs, reg, jobs, orig, adminAsks>>
         /\ AuthHistUnchanged
    ELSE IF ~comparePassword(u, password)
    THEN /\ users' = [users EXCEPT ![uid] = incrementLoginAttempts(u)]
         /\ last' = [req EXCEPT !.status = 401,
                        !.audit = <<Audit("LOGIN_FAILED", "FAILED")>>]
         /\ run' = RunAfter(users', uid, ~req.pwOk)
         /\ UNCHANGED <<tokens, now, auditUp, files, blobs, reg, jobs, orig, adminAsks>>
         /\ AuthHistUnchanged
    ELSE /\ CanIssue(mfaToken(uid))
         /\ tokens' = tokens \cup {mfaToken(uid)}
         /\ last' = [req EXCEPT !.status = 200, !.issued = mfaToken(uid)]
         /\ pwPassed' = IF req.pwOk THEN pwPassed \cup {uid} ELSE pwPassed
         /\ run' = RunAfter(users, uid, ~req.pwOk)
         /\ UNCHANGED <<users, now, auditUp, files, blobs, reg, jobs, orig, adminAsks, mfaPassed, mfaFailedWith>>

existingUser(us, username, email) ==
    \E i \in DOMAIN us : us[i].email = email \/ us[i].username = username

existingAdmin(us) == \E i \in DOMAIN us : us[i].role = "admin"

allowedRole(role) == IF role \in Roles THEN role ELSE "guest"

(* history: the number of register calls made, as long as every one of     *)
(* them asked for admin with a free handle and email and a valid password  *)
AsksAfter(username, email, password, role) ==
    IF /\ adminAsks >= 0
       /\ adminAsks < MaxAsks
       /\ role = "admin"
       /\ username # "" /\ email # ""
       /\ Len(password) >= MIN_PASSWORD_LENGTH
       /\ ~existingUser(users, username, email)
    THEN adminAsks + 1
    ELSE -1

register(username, email, password, role) ==
    LET req == [Req("register") EXCEPT !.role = role,
                    !.adminBefore = (\E i \in DOMAIN users : users[i].role = "admin"),
                    !.taken = (\E i \in DOMAIN users :
                                  users[i].email = email \/ users[i].username = username),
                    !.pwOk = (Len(password) >= MIN_PASSWORD_LENGTH)]
        rejected == /\ last' = [req EXCEPT !.status = 400]
                    /\ UNCHANGED <<users, run>>
    IN
    /\ adminAsks' = AsksAfter(username, email, password, role)
    /\ UNCHANGED <<tokens, now, auditUp, files, blobs, reg, jobs, orig>>
    /\ AuthHistUnchanged
    /\ IF username = "" \/ email = "" \/ password = "" THEN rejected
       ELSE IF Len(password) < MIN_PASSWORD_LENGTH THEN rejected
       ELSE IF existingUser(users, username, email) THEN rejected
       ELSE IF allowedRole(role) = "admin" /\ existingAdmin(users) THEN rejected
       ELSE /\ Len(users) < MaxUsers
            /\ users' = Append(users,
                    NewUser(username, email, password, allowedRole(role)))
            /\ last' = [req EXCEPT !.status = 201, !.uid = Len(users) + 1,
                           !.audit = <<Audit("USER_CREATED", "SUCCESS")>>]
            /\ run' = RunAfter(users', 0, FALSE)

resetLoginAttempts_keepLock(u) ==
    [(IF u.loginAttempts > 0 THEN [u EXCEPT !.loginAttempts = 0] ELSE u)
        EXCEPT !.lastLogin = now]

resetLoginAttempts(u) ==
    [(IF u.loginAttempts > 0
      THEN [u EXCEPT !.loginAttempts = 0, !.lockUntil = None]
      ELSE u)
        EXCEPT !.lastLogin = now]

(* the claim-level reading of a completed second factor: an issued,       *)
(* unexpired pending token of an account that passed login, a valid code  *)
SecondFactorGiven(tok, code) ==
    /\ tok \in tokens
    /\ tok.mfaPending
    /\ now < tok.exp
    /\ code = "valid"
    /\ tok.id \in pwPassed

verifyMFA(tok, code) ==
    LET gate == verifyMFAToken(tok)
        uid == gate.uid
        u == IF uid # 0 THEN users[uid] ELSE NoUser
        req == [Req("verifyMFA") EXCEPT !.uid = uid, !.pre = u, !.token = tok,
                    !.code = code]
        hist == IF SecondFactorGiven(tok, code)
                THEN mfaPassed \cup {tok.id} ELSE mfaPassed
    IN
    IF gate.status # 0
    THEN /\ last' = [req EXCEPT !.status = gate.status]
         /\ mfaPassed' = hist
         /\ UNCHANGED <<users, tokens, now, auditUp, files, blobs, reg, jobs, orig, adminAsks, run, pwPassed, mfaFailedWith>>
    ELSE IF code = ""
    THEN /\ last' = [req EXCEPT !.status = 400]
         /\ mfaPassed' = hist
         /\ UNCHANGED <<users, tokens, now, auditUp, files, blobs, reg, jobs, orig, adminAsks, run, pwPassed, mfaFailedWith>>
    ELSE IF code # "valid"
    THEN /\ last' = [req EXCEPT !.status = 401,
                        !.audit = <<Audit("MFA_FAILED", "FAILED")>>]
         /\ mfaFailedWith' = mfaFailedWith \cup {tok}
         /\ mfaPassed' = hist
         /\ UNCHANGED <<users, tokens, now, auditUp, files, blobs, reg, jobs, orig, adminAsks, run, pwPassed>>
    ELSE LET saved == resetLoginAttempts([u EXCEPT !.mfaVerified = TRUE])
             at == accessToken(uid, u.role)
         IN
         /\ CanIssue(at)
         /\ users' = [users EXCEPT ![uid] = saved]
         /\ tokens' = tokens \cup {at}
         /\ last' = [req EXCEPT !.status = 200, !.issued = at,
                        !.audit = (IF u.mfaVerified THEN <<>>
                                   ELSE <<Audit("MFA_SETUP", "SUCCESS")>>)
                                  \o <<Audit("LOGIN_SUCCESS", "SUCCESS")>>]
         /\ mfaPassed' = hist
         /\ run' = RunAfter(users', uid, FALSE)
         /\ UNCHANGED <<now, auditUp, files, blobs, reg, jobs, orig, adminAsks, pwPassed, mfaFailedWith>>

(* GET /api/auth/me behind verifyToken *)
getMe(tok) ==
    LET gate == verifyToken(tok)
        req == [Req("getMe") EXCEPT !.uid = gate.uid, !.token = tok]
    IN
    /\ last' = [req EXCEPT !.status = IF gate.status # 0 THEN gate.status ELSE 200]
    /\ UNCHANGED <<users, tokens, now, auditUp, files, blobs, reg, jobs, orig, adminAsks, run>>
    /\ AuthHistUnchanged

(* POST /api/auth/logout behind verifyToken *)
logout(tok) ==
    LET gate == verifyToken(tok)
        req == [Req("logout") EXCEPT !.uid = gate.uid, !.token = tok]
    IN
    /\ last' = IF gate.status # 0 THEN [req EXCEPT !.status = gate.status]
               ELSE [req EXCEPT !.status = 200,
                        !.audit = <<Audit("LOGOUT", "SUCCESS")>>]
    /\ UNCHANGED <<users, tokens, now, auditUp, files, blobs, reg, jobs, orig, adminAsks, run>>
    /\ AuthHistUnchanged

----------------------------------------------------------------------------
(* adminController *)
unlockUser(tok, id) ==
    LET gate == adminGate(tok)
        req == [Req("unlockUser") EXCEPT !.uid = gate.uid, !.token = tok,
                    !.audit = gate.audit]
    IN
    IF gate.status # 0
    THEN /\ last' = [req EXCEPT !.status = gate.status]
         /\ UNCHANGED <<users, tokens, now, auditUp, files, blobs, reg, jobs, orig, adminAsks, run>>
         /\ AuthHistUnchanged
    ELSE IF id \notin DOMAIN users
    THEN /\ last' = [req EXCEPT !.status = 404]
         /\ UNCHANGED <<users, tokens, now, auditUp, files, blobs, reg, jobs, orig, adminAsks, run>>
         /\ AuthHistUnchanged
    ELSE /\ users' = [users EXCEPT ![id] =
                        [@ EXCEPT !.loginAttempts = 0, !.lockUntil = None]]
         /\ last' = [req EXCEPT !.status = 200, !.pre = users[id],
                        !.audit = <<Audit("ACCOUNT_LOCKED", "SUCCESS")>>]
         /\ run' = RunAfter(users', 0, FALSE)
         /\ UNCHANGED <<tokens, now, auditUp, files, blobs, reg, jobs, orig, adminAsks>>
         /\ AuthHistUnchanged

updateUserRole(tok, id, role) ==
    LET gate == adminGate(tok)
        req == [Req("updateUserRole") EXCEPT !.uid = gate.uid, !.token = tok,
                    !.role = role, !.audit = gate.audit]
    IN
    IF gate.status # 0
    THEN /\ last' = [req EXCEPT !.status = gate.status]
         /\ UNCHANGED <<users, tokens, now, auditUp, files, blobs, reg, jobs, orig, adminAsks, run>>
         /\ AuthHistUnchanged
    ELSE IF role \notin Roles
    THEN /\ last' = [req EXCEPT !.status = 400]
         /\ UNCHANGED <<users, tokens, now, auditUp, files, blobs, reg, jobs, orig, adminAsks, run>>
         /\ AuthHistUnchanged
    ELSE IF id \notin DOMAIN users
    THEN /\ last' = [req EXCEPT !.status = 404]
         /\ UNCHANGED <<users, tokens, now, auditUp, files, blobs, reg, jobs, orig, adminAsks, run>>
         /\ AuthHistUnchanged
    ELSE /\ users' = [users EXCEPT ![id] = [@ EXCEPT !.role = role]]
         /\ last' = [req EXCEPT !.status = 200, !.pre = users[id],
                        !.audit = <<Audit("ROLE_CHANGED", "SUCCESS")>>]
         /\ UNCHANGED <<tokens, now, auditUp, files, blobs, reg, jobs, orig, adminAsks, run>>
         /\ AuthHistUnchanged

----------------------------------------------------------------------------
(* the clock *)
Instants == {0, 5, 120, 121}

Tick ==
    /\ \E t \in Instants : t > now /\ now' = t
    /\ UNCHANGED <<users, tokens, auditUp, files, blobs, reg, jobs, orig, adminAsks, last,
                   pwPassed, mfaPassed, mfaFailedWith, run>>

----------------------------------------------------------------------------
(* The authentication state machine: the administrator is signed in, the  *)
(* account pat@fv.io is the one that logs in.                              *)
Emails == {"pat@fv.io", "nobody@fv.io"}
Passwords == {"Sup3rSecret!", "wrongpass"}
Codes == {"valid", "invalid", ""}

InitAuth ==
    /\ now = 0
    /\ auditUp = TRUE
    /\ users = << [NewUser("root", "root@fv.io", "Sup3rSecret!", "admin")
                      EXCEPT !.mfaVerified = TRUE, !.lastLogin = 0],
                  NewUser("pat", "pat@fv.io", "Sup3rSecret!", "premium") >>
    /\ tokens = {accessToken(1, "admin")}
    /\ files = <<>>
    /\ blobs = <<>>
    /\ reg = <<>>
    /\ jobs = <<>>
    /\ orig = <<>>
    /\ last = R0
    /\ pwPassed = {1}
    /\ mfaPassed = {1}
    /\ mfaFailedWith = {}
    /\ run = [i \in DOMAIN users |-> 0]
    /\ adminAsks = -1

NextAuth ==
    \/ \E e \in Emails \cup {""}, p \in Passwords \cup {""} : login(e, p)
    \/ \E t \in Presentable, c \in Codes : verifyMFA(t, c)
    \/ \E t \in Presentable : getMe(t)
    \/ \E t \in Presentable : logout(t)
    \/ \E t \in Presentable, id \in DOMAIN users : unlockUser(t, id)
    \/ Tick

Spec == InitAuth /\ [][NextAuth]_vars

----------------------------------------------------------------------------
(* Properties of the authentication state machine (checked under Spec) *)

GatedOps == {"getMe", "logout", "unlockUser"}

(* C1: verifyToken lets a request through for an account only if that     *)
(* account passed login with its password and then verifyMFA with an       *)
(* unexpired pending token of its own and a valid code; the token it       *)
(* accepts never carries the pending flag, full-access tokens exist only   *)
(* for such accounts, and login itself issues nothing but pending tokens.  *)
C1_GateNeedsBothFactors ==
    /\ (last.op \in GatedOps /\ last.uid # 0) =>
            /\ last.uid \in pwPassed
            /\ last.uid \in mfaPassed
            /\ ~last.token.mfaPending
            /\ last.token.id = last.uid
    /\ \A t \in tokens : ~t.mfaPending => t.id \in mfaPassed
    /\ last.op = "login" => (last.issued = NoToken \/ last.issued.mfaPending)

C1_Witness ==
    /\ last.op \in GatedOps
    /\ last.uid = 2
    /\ last.status = 200
    /\ \E t \in tokens : t.mfaPending /\ t.id = 2

(* C2: counting wrong-password logins from counter 0 and no lock, the      *)
(* account is unlocked after each of the first 4 and the 5th sets          *)
(* lock-until to the time of that attempt plus 2 hours.                    *)
C2_LockOnFifthFailure ==
    \A i \in DOMAIN users :
        /\ run[i] \in 1..4 => users[i].lockUntil = None
        /\ (run[i] = 5 /\ last.op = "login" /\ last.uid = i /\ ~last.pwOk) =>
                users[i].lockUntil = last.time + LOCK_TIME

C2_Witness ==
    /\ run[2] = 5
    /\ last.op = "login" /\ last.uid = 2 /\ ~last.pwOk
    /\ last.pre.loginAttempts = 4 /\ last.pre.lockUntil = None
    /\ users[2].lockUntil = last.time + LOCK_TIME

(* C3: a login for an account whose lock-until is in the future answers    *)
(* 423 for a right and for a wrong password, issues no pending token and   *)
(* leaves the failed-login counter and lock-until as they were.            *)
C3_LockedLoginHasNoEffect ==
    (/\ last.op = "login"
     /\ last.uid # 0
     /\ last.pre.lockUntil # None
     /\ last.pre.lockUntil > last.time) =>
        /\ last.status = 423
        /\ last.issued = NoToken
        /\ users[last.uid].loginAttempts = last.pre.loginAttempts
        /\ users[last.uid].lockUntil = last.pre.lockUntil

C3_Witness ==
    /\ last.op = "login"
    /\ last.status = 423
    /\ last.pwOk
    /\ last.pre.lockUntil > last.time

(* C4: after every successful verifyMFA the account's failed-login counter *)
(* is 0, its lock-until is cleared and last-login is the time of the call. *)
C4_MfaSuccessResetsCounter ==
    (last.op = "verifyMFA" /\ last.status = 200) =>
        /\ users[last.uid].loginAttempts = 0
        /\ users[last.uid].lockUntil = None
        /\ users[last.uid].lastLogin = last.time

C4_Witness ==
    /\ last.op = "verifyMFA"
    /\ last.status = 200
    /\ last.pre.loginAttempts >= MAX_LOGIN_ATTEMPTS
    /\ last.pre.lockUntil # None
    /\ last.pre.lockUntil < last.time

(* C5: a pending token that was presented with an invalid code still       *)
(* completes verifyMFA with a valid code while it is unexpired, and an     *)
(* expired pending token is rejected whatever the code.                    *)
C5_PendingTokenReusable ==
    /\ (/\ last.op = "verifyMFA"
        /\ last.token \in mfaFailedWith
        /\ last.code = "valid"
        /\ last.time < last.token.exp) =>
            /\ last.status = 200
            /\ last.issued.sig = "valid"
            /\ ~last.issued.mfaPending
            /\ last.issued.id = last.token.id
    /\ (/\ last.op = "verifyMFA"
        /\ last.token.sig = "valid"
        /\ last.token.mfaPending
        /\ last.time >= last.token.exp) =>
            /\ last.status = 401
            /\ last.issued = NoToken

C5_Witness ==
    /\ last.op = "verifyMFA"
    /\ last.token \in mfaFailedWith
    /\ last.status = 200
    /\ last.time > 0

----------------------------------------------------------------------------
(* Registration and user management, from an empty User collection *)
Usernames == {"root", "pat"}
RegEmails == {"root@fv.io", "pat@fv.io"}
RegPasswords == {"Sup3rSecret!", "short"}
RoleInputs == Roles \cup {"superuser"}
Credentials == {<<"root@fv.io", "Sup3rSecret!">>, <<"pat@fv.io", "Sup3rSecret!">>,
                <<"pat@fv.io", "wrongpass">>}
Identities == {<<"root", "root@fv.io">>, <<"pat", "pat@fv.io">>}

InitEmpty ==
    /\ now = 0
    /\ auditUp = TRUE
    /\ users = <<>>
    /\ tokens = {}
    /\ files = <<>>
    /\ blobs = <<>>
    /\ jobs = <<>>
    /\ orig = <<>>
    /\ last = R0
    /\ pwPassed = {}
    /\ mfaPassed = {}
    /\ mfaFailedWith = {}
    /\ run = <<>>

InitAdmin == InitEmpty /\ reg = <<>> /\ adminAsks = -1

NextAdmin ==
    \/ \E a \in Identities, r \in Roles : register(a[1], a[2], "Sup3rSecret!", r)
    \/ \E c \in Credentials : login(c[1], c[2])
    \/ \E t \in Presentable : verifyMFA(t, "valid")
    \/ \E t \in Presentable, id \in 1..MaxUsers, r \in RoleInputs :
            updateUserRole(t, id, r)
    \/ \E t \in Presentable, id \in 1..MaxUsers : unlockUser(t, id)

SpecAdmin == InitAdmin /\ [][NextAdmin]_vars

(* C6: at most one account has role admin, whatever register,             *)
(* updateUserRole and unlockUser calls were made.                          *)
C6_AtMostOneAdmin ==
    Cardinality({i \in DOMAIN users : users[i].role = "admin"}) <= 1

----------------------------------------------------------------------------
(* Sequential registrations only *)
InitRegister == InitEmpty /\ reg = <<>> /\ adminAsks = 0

NextRegister ==
    \E u \in Usernames \cup {""}, e \in RegEmails \cup {""},
       p \in RegPasswords \cup {""}, r \in RoleInputs :
        register(u, e, p, r)

SpecRegister == InitRegister /\ [][NextRegister]_vars

(* C7: a register call asking for admin while an admin exists, with a free *)
(* handle and email and a valid password, creates a guest account; so n    *)
(* registrations that all ask for admin (n up to 5) leave exactly one      *)
(* admin and n - 1 guests.                                                  *)
C7_SecondAdminBecomesGuest ==
    /\ (/\ last.op = "register"
        /\ last.role = "admin"
        /\ last.adminBefore
        /\ ~last.taken
        /\ last.pwOk) =>
            /\ last.status = 201
            /\ last.uid \in DOMAIN users
            /\ users[last.uid].role = "guest"
    /\ adminAsks >= 1 =>
            /\ Cardinality({i \in DOMAIN users : users[i].role = "admin"}) = 1
            /\ Cardinality({i \in DOMAIN users : users[i].role = "guest"})
                    = adminAsks - 1

----------------------------------------------------------------------------
(* Two register requests in flight: the handler of authController.register *)
(* yields at each await, so their steps interleave.                        *)
Procs == {1, 2}

RegReq(username, email) ==
    [pc |-> "findUser", username |-> username, email |-> email,
     password |-> "Sup3rSecret!", role |-> "admin", status |-> 0, uid |-> 0]

RaceUnchanged ==
    UNCHANGED <<tokens, now, auditUp, files, blobs, jobs, orig, adminAsks, last, pwPassed,
                mfaPassed, mfaFailedWith>>

(* await User.findOne({ $or: [{ email }, { username }] }) *)
regFindUser(p) ==
    /\ reg[p].pc = "findUser"
    /\ reg' = [reg EXCEPT ![p] =
            IF existingUser(users, reg[p].username, reg[p].email)
            THEN [@ EXCEPT !.pc = "done", !.status = 400]
            ELSE IF allowedRole(reg[p].role) = "admin"
                 THEN [@ EXCEPT !.pc = "findAdmin"]
                 ELSE [@ EXCEPT !.pc = "create"]]
    /\ UNCHANGED <<users, run>>
    /\ RaceUnchanged

(* await User.findOne({ role: 'admin' }) *)
regFindAdmin(p) ==
    /\ reg[p].pc = "findAdmin"
    /\ reg' = [reg EXCEPT ![p] =
            IF existingAdmin(users)
            THEN [@ EXCEPT !.pc = "done", !.status = 400]
            ELSE [@ EXCEPT !.pc = "create"]]
    /\ UNCHANGED <<users, run>>
    /\ RaceUnchanged

(* await User.create(...): the unique indexes on username and email make   *)
(* the insert throw, and the handler's catch answers 500                   *)
regCreate(p) ==
    /\ reg[p].pc = "create"
    /\ IF existingUser(users, reg[p].username, reg[p].email)
       THEN /\ reg' = [reg EXCEPT ![p] = [@ EXCEPT !.pc = "done", !.status = 500]]
            /\ UNCHANGED <<users, run>>
       ELSE /\ users' = Append(users, NewUser(reg[p].username, reg[p].email,
                                reg[p].password, allowedRole(reg[p].role)))
            /\ reg' = [reg EXCEPT ![p] = [@ EXCEPT !.pc = "done", !.status = 201,
                                                  !.uid = Len(users) + 1]]
            /\ run' = RunAfter(users', 0, FALSE)
    /\ RaceUnchanged

InitRace ==
    /\ InitEmpty
    /\ adminAsks = -1
    /\ \E u1 \in Usernames, u2 \in Usernames, e1 \in RegEmails, e2 \in RegEmails :
            reg = <<RegReq(u1, e1), RegReq(u2, e2)>>

NextRace ==
    \/ \E p \in Procs : regFindUser(p)
    \/ \E p \in Procs : regFindAdmin(p)
    \/ \E p \in Procs : regCreate(p)

SpecRace == InitRace /\ [][NextRace]_vars

(* C8: when both concurrent admin registrations have answered, at most one *)
(* of the accounts they created has role admin.                            *)
C8_RaceYieldsOneAdmin ==
    (\A p \in Procs : reg[p].pc = "done") =>
        Cardinality({p \in Procs : reg[p].status = 201
                                   /\ users[reg[p].uid].role = "admin"}) <= 1

----------------------------------------------------------------------------
(* utils/encryption, utils/keyDerivation, utils/keyExchange: the ciphers   *)
(* are symbolic, a ciphertext opens only under the key that made it        *)
AUTH_FAILED == <<"AUTH_FAILED">>

generateKey(n) == <<"fek", n>>

generateSalt(n) == <<"salt", n>>

deriveKey(password, salt) == <<"pbkdf2", password, salt>>

encryptFile(plainBuffer, key, n) ==
    [encryptedData |-> <<"aes-gcm", plainBuffer, key, n>>, iv |-> n,
     authTag |-> <<"tag", plainBuffer, key, n>>]

decryptFile_noTagCheck(encryptedBuffer, iv, authTag, key) ==
    IF encryptedBuffer[3] = key /\ encryptedBuffer[4] = iv
    THEN encryptedBuffer[2]
    ELSE AUTH_FAILED

decryptFile(encryptedBuffer, iv, authTag, key) ==
    IF /\ encryptedBuffer[3] = key
       /\ encryptedBuffer[4] = iv
       /\ authTag = <<"tag", encryptedBuffer[2], key, iv>>
    THEN encryptedBuffer[2]
    ELSE AUTH_FAILED

encryptKey_swapped(fileKey, masterKey, n) == encryptFile(masterKey, fileKey, n)

encryptKey(fileKey, masterKey, n) == encryptFile(fileKey, masterKey, n)

decryptKey(encryptedKey, iv, authTag, masterKey) ==
    decryptFile(encryptedKey, iv, authTag, masterKey)

calculateHash(buffer) == <<"sha256", buffer>>

verifyIntegrity_lengthOnly(buffer, expectedHash) ==
    Len(calculateHash(buffer)) = Len(expectedHash)

verifyIntegrity(buffer, expectedHash) == calculateHash(buffer) = expectedHash

encryptForKeyExchange(fileData, guestPublicKey) ==
    [encryptedFile |-> <<"aes-gcm", fileData, <<"aesKey">>, 0>>,
     encryptedAESKey |-> <<"rsa-oaep", <<"aesKey">>, guestPublicKey>>]

----------------------------------------------------------------------------
(* File model and fileController *)
NoSalt == <<>>

(* fs.readFile of a path that was unlinked throws ENOENT *)
ENOENT == <<"ENOENT">>

(* the salt register stored on account uid *)
encryptionSalt_zeroIfMissing(uid) == generateSalt(0 - uid)

encryptionSalt(uid) ==
    IF users[uid].encryptionSalt THEN generateSalt(0 - uid) ELSE NoSalt

findById_includingDeleted(fid) == fid \in DOMAIN files

findById(fid) == fid \in DOMAIN files /\ ~files[fid].isDeleted

(* history: whether the addressed file was already soft-deleted *)
Gone(fid) == fid \in DOMAIN files /\ files[fid].isDeleted

FileHistUnchanged ==
    UNCHANGED <<users, tokens, now, auditUp, reg, jobs, adminAsks, pwPassed, mfaPassed,
                mfaFailedWith, run>>

(* router.use(verifyToken); verifyRole(['admin', 'premium']); uploadFile *)
uploadFile(tok, content, accessLevel, password) ==
    LET gate == verifyToken(tok)
        uid == gate.uid
        acl == verifyRole({"admin", "premium"}, uid)
        req == [Req("upload") EXCEPT !.uid = uid, !.token = tok,
                    !.password = password,
                    !.role = IF uid # 0 THEN users[uid].role ELSE "none"]
        n == Len(blobs) + 1
        sha256Hash == calculateHash(content)
        fileKey == generateKey(n)
        encryptedFile == encryptFile(content, fileKey, n)
        fileSalt == generateSalt(n)
        masterKey == deriveKey(password, fileSalt)
        encryptedKeyData == encryptKey(fileKey, masterKey, n)
        refused(status, audit) ==
            /\ last' = [req EXCEPT !.status = status, !.audit = audit]
            /\ UNCHANGED <<files, blobs, orig>>
    IN
    /\ FileHistUnchanged
    /\ IF gate.status # 0 THEN refused(gate.status, <<>>)
       ELSE IF acl.status # 0 THEN refused(acl.status, acl.audit)
       ELSE IF content = <<>> THEN refused(400, <<>>)
       ELSE IF ~users[uid].encryptionSalt THEN refused(500, <<>>)
       ELSE IF password = "" THEN refused(400, <<>>)
       ELSE /\ Len(files) < MaxFiles
            /\ blobs' = Append(blobs, encryptedFile.encryptedData)
            /\ files' = Append(files,
                    [encryptedPath |-> n, owner |-> uid,
                     accessLevel |-> accessLevel, iv |-> encryptedFile.iv,
                     authTag |-> encryptedFile.authTag, fileSalt |-> fileSalt,
                     encryptedKey |-> encryptedKeyData,
                     keyExchangeEnabled |-> TRUE, sha256Hash |-> sha256Hash,
                     shareToken |-> 0, shareExpiry |-> None,
                     downloadCount |-> 0, isDeleted |-> FALSE,
                     deletedAt |-> None])
            /\ orig' = Append(orig, [content |-> content, password |-> password,
                                     file |-> files'[n], blob |-> blobs'[n]])
            /\ last' = [req EXCEPT !.status = 201, !.fid = Len(files) + 1,
                           !.audit = <<Audit("FILE_UPLOAD", "SUCCESS")>>]

(* Vault files: only owner and admin *)
vaultDenied_aclRoleOnly(f, uid) ==
    /\ f.accessLevel = "vault"
    /\ users[uid].role \notin ACL_RULES["encrypted-vault"].read

vaultDenied(f, uid) ==
    /\ f.accessLevel = "vault"
    /\ users[uid].role # "admin"
    /\ f.owner # uid

(* router.use(verifyToken); downloadFile *)
downloadFile(tok, fid, password) ==
    LET gate == verifyToken(tok)
        uid == gate.uid
        req == [Req("download") EXCEPT !.uid = uid, !.token = tok, !.fid = fid,
                    !.password = password, !.gone = Gone(fid),
                    !.role = IF uid # 0 THEN users[uid].role ELSE "none"]
        f == files[fid]
        found == [req EXCEPT !.file = f, !.blob = blobs[f.encryptedPath]]
        saltToUse == IF f.fileSalt # NoSalt THEN f.fileSalt
                     ELSE encryptionSalt(f.owner)
        masterKey == deriveKey(password, saltToUse)
        fileKey == decryptKey(f.encryptedKey.encryptedData, f.encryptedKey.iv,
                              f.encryptedKey.authTag, masterKey)
        salted == [found EXCEPT !.ownerSalt = (f.fileSalt = NoSalt)]
        derived == [salted EXCEPT !.derivedKey = TRUE]
        fetched == [derived EXCEPT !.readBlob = TRUE]
        encryptedData == blobs[f.encryptedPath]
        decryptedData == decryptFile(encryptedData, f.iv, f.authTag, fileKey)
        integrityPassed == verifyIntegrity(decryptedData, f.sha256Hash)
        refused(r, status, audit) ==
            /\ last' = [r EXCEPT !.status = status, !.audit = audit]
            /\ UNCHANGED files
    IN
    /\ FileHistUnchanged
    /\ UNCHANGED <<blobs, orig>>
    /\ IF gate.status # 0 THEN refused(req, gate.status, <<>>)
       ELSE IF ~findById(fid) THEN refused(req, 404, <<>>)
       ELSE IF vaultDenied(f, uid) THEN refused(found, 403, <<>>)
       ELSE IF password = "" THEN refused(found, 400, <<>>)
       ELSE IF saltToUse = NoSalt THEN refused(salted, 500, <<>>)
       ELSE IF fileKey = AUTH_FAILED THEN refused(derived, 401, <<>>)
       ELSE IF encryptedData = ENOENT THEN refused(fetched, 500, <<>>)
       ELSE IF decryptedData = AUTH_FAILED
            THEN refused(fetched, 500,
                         <<Audit("INTEGRITY_CHECK_FAILED", "FAILED")>>)
       ELSE IF ~integrityPassed
            THEN refused(fetched, 500,
                         <<Audit("INTEGRITY_CHECK_FAILED", "FAILED")>>)
       ELSE /\ f.downloadCount < MaxDownloads
            /\ files' = [files EXCEPT ![fid].downloadCount = @ + 1]
            /\ last' = [fetched EXCEPT !.status = 200,
                           !.body = [NoBody EXCEPT !.plain = decryptedData],
                           !.audit = <<Audit("INTEGRITY_CHECK_PASSED", "SUCCESS"),
                                       Audit("FILE_DOWNLOAD", "SUCCESS")>>]

(* router.use(verifyToken); keyExchangeDownload *)
keyExchangeDownload(tok, fid, guestPublicKey) ==
    LET gate == verifyToken(tok)
        uid == gate.uid
        req == [Req("keyExchange") EXCEPT !.uid = uid, !.token = tok,
                    !.fid = fid, !.gone = Gone(fid),
                    !.publicKey = guestPublicKey,
                    !.role = IF uid # 0 THEN users[uid].role ELSE "none"]
        f == files[fid]
        fetched == [req EXCEPT !.readBlob = TRUE]
        encryptedData == blobs[f.encryptedPath]
        result == encryptForKeyExchange(encryptedData, guestPublicKey)
        refused(r, status) ==
            /\ last' = [r EXCEPT !.status = status]
            /\ UNCHANGED files
    IN
    /\ FileHistUnchanged
    /\ UNCHANGED <<blobs, orig>>
    /\ IF gate.status # 0 THEN refused(req, gate.status)
       ELSE IF guestPublicKey = "" THEN refused(req, 400)
       ELSE IF ~findById(fid) THEN refused(req, 404)
       ELSE IF ~f.keyExchangeEnabled THEN refused(req, 400)
       ELSE IF encryptedData = ENOENT THEN refused(fetched, 500)
       ELSE /\ f.downloadCount < MaxDownloads
            /\ files' = [files EXCEPT ![fid].downloadCount = @ + 1]
            /\ last' = [fetched EXCEPT !.status = 200,
                           !.body = [NoBody EXCEPT
                                        !.encryptedFile = result.encryptedFile,
                                        !.encryptedAESKey = result.encryptedAESKey,
                                        !.iv = f.iv, !.authTag = f.authTag,
                                        !.sha256Hash = f.sha256Hash],
                           !.audit = <<Audit("KEY_EXCHANGE_DOWNLOAD", "SUCCESS")>>]

SHARE_DEFAULT_MINUTES == 60

(* keyDerivation.generateExpiringToken; n numbers the random token *)
generateExpiringToken(expiryMinutes, n) ==
    [token |-> n, expiry |-> now + expiryMinutes]

(* the next unused share token *)
NextShareToken ==
    1 + Cardinality({t \in 1..MaxShares :
                        \E i \in DOMAIN files : files[i].shareToken >= t})

(* Check ownership (only owner or admin) *)
notOwnerOrAdmin_guestOnly(f, uid) == users[uid].role = "guest"

notOwnerOrAdmin(f, uid) == users[uid].role # "admin" /\ f.owner # uid

(* the request as it reaches a handler behind verifyToken, with the        *)
(* addressed document and blob as they were                                *)
FileReq(op, tok, fid) ==
    LET uid == verifyToken(tok).uid IN
    [Req(op) EXCEPT !.uid = uid, !.token = tok, !.fid = fid, !.gone = Gone(fid),
                    !.role = IF uid # 0 THEN users[uid].role ELSE "none",
                    !.file = IF fid \in DOMAIN files THEN files[fid] ELSE NoFile,
                    !.blob = IF fid \in DOMAIN blobs THEN blobs[fid] ELSE <<>>]

(* router.use(verifyToken); verifyRole(['admin', 'premium']); shareFile *)
shareFile(tok, fid, minutes) ==
    LET gate == verifyToken(tok)
        uid == gate.uid
        acl == verifyRole({"admin", "premium"}, uid)
        req == [FileReq("share", tok, fid) EXCEPT !.minutes = minutes]
        f == files[fid]
        expiryMinutes == IF minutes.given /\ minutes.value # 0
                         THEN minutes.value ELSE SHARE_DEFAULT_MINUTES
        made == generateExpiringToken(expiryMinutes, NextShareToken)
        refused(status, audit) ==
            /\ last' = [req EXCEPT !.status = status, !.audit = audit]
            /\ UNCHANGED files
    IN
    /\ FileHistUnchanged
    /\ UNCHANGED <<blobs, orig>>
    /\ IF gate.status # 0 THEN refused(gate.status, <<>>)
       ELSE IF acl.status # 0 THEN refused(acl.status, acl.audit)
       ELSE IF ~findById(fid) THEN refused(404, <<>>)
       ELSE IF notOwnerOrAdmin(f, uid) THEN refused(403, <<>>)
       ELSE /\ NextShareToken <= MaxShares
            /\ files' = [files EXCEPT ![fid].shareToken = made.token,
                                      ![fid].shareExpiry = made.expiry]
            /\ last' = [req EXCEPT !.status = 200, !.shareToken = made.token,
                           !.audit = <<Audit("FILE_SHARE", "SUCCESS")>>]

(* router.use(verifyToken); verifyRole(['admin', 'premium']); deleteFile;  *)
(* unlinked tells whether fs.unlink succeeded                              *)
deleteFile(tok, fid, unlinked) ==
    LET gate == verifyToken(tok)
        uid == gate.uid
        acl == verifyRole({"admin", "premium"}, uid)
        req == FileReq("delete", tok, fid)
        f == files[fid]
        refused(status, audit) ==
            /\ last' = [req EXCEPT !.status = status, !.audit = audit]
            /\ UNCHANGED <<files, blobs>>
    IN
    /\ FileHistUnchanged
    /\ UNCHANGED orig
    /\ IF gate.status # 0 THEN refused(gate.status, <<>>)
       ELSE IF acl.status # 0 THEN refused(acl.status, acl.audit)
       ELSE IF ~findById(fid) THEN refused(404, <<>>)
       ELSE IF notOwnerOrAdmin(f, uid) THEN refused(403, <<>>)
       ELSE /\ files' = [files EXCEPT ![fid].isDeleted = TRUE,
                                      ![fid].deletedAt = now]
            /\ blobs' = IF unlinked
                        THEN [blobs EXCEPT ![f.encryptedPath] = ENOENT]
                        ELSE blobs
            /\ last' = [req EXCEPT !.status = 200,
                           !.audit = <<Audit("FILE_DELETE", "SUCCESS")>>]

(* File.findOne({ shareToken, shareExpiry: { $gt: new Date() } }) *)
findShared(token) ==
    {i \in DOMAIN files : /\ findById(i)
                          /\ files[i].shareToken = token
                          /\ files[i].shareExpiry > now}

(* the fields of the document that getSharedFile puts in its response *)
SharedInfo ==
    {"_id", "originalName", "size", "mimeType", "owner.username", "shareExpiry"}

(* router.get('/share/:token', getSharedFile): no authentication *)
getSharedFile(token) ==
    LET hits == findShared(token)
        req == [Req("getShared") EXCEPT !.shareToken = token]
    IN
    /\ FileHistUnchanged
    /\ UNCHANGED <<files, blobs, orig>>
    /\ IF hits = {}
       THEN last' = [req EXCEPT !.status = 404]
       ELSE LET fid == CHOOSE i \in hits : TRUE IN
            last' = [req EXCEPT !.status = 200, !.fid = fid, !.file = files[fid],
                                !.info = SharedInfo]

----------------------------------------------------------------------------
(* Files: four accounts that completed both factors                       *)
Member(username, email, role) ==
    [NewUser(username, email, "Sup3rSecret!", role)
        EXCEPT !.mfaVerified = TRUE, !.lastLogin = 0]

Contents == {<<"report">>, <<>>}
AccessLevels == {"vault", "public"}
FilePasswords == {"Op3nSesame!", "guess", ""}
PublicKeys == {"rsa-pub", ""}
FileIds == 1..MaxFiles

InitFiles ==
    /\ now = 0
    /\ auditUp = TRUE
    /\ users = <<Member("root", "root@fv.io", "admin"),
                 Member("pat", "pat@fv.io", "premium"),
                 Member("quinn", "quinn@fv.io", "premium"),
                 Member("gus", "gus@fv.io", "guest")>>
    /\ tokens = {accessToken(i, users[i].role) : i \in DOMAIN users}
    /\ files = <<>>
    /\ blobs = <<>>
    /\ reg = <<>>
    /\ jobs = <<>>
    /\ orig = <<>>
    /\ adminAsks = -1
    /\ last = R0
    /\ pwPassed = DOMAIN users
    /\ mfaPassed = DOMAIN users
    /\ mfaFailedWith = {}
    /\ run = [i \in DOMAIN users |-> 0]

Uploaders == {t \in tokens : users[t.id].username \in {"pat", "gus"}}

Requesters == tokens \cup {NoToken}

NextFiles ==
    \/ \E t \in Uploaders, c \in Contents, a \in AccessLevels :
            uploadFile(t, c, a, "Op3nSesame!")
    \/ \E t \in Requesters, i \in FileIds, p \in FilePasswords :
            downloadFile(t, i, p)
    \/ \E t \in Requesters, i \in FileIds, k \in PublicKeys :
            keyExchangeDownload(t, i, k)

SpecFiles == InitFiles /\ [][NextFiles]_vars

(* the password that unwraps the key of file f *)
Unwraps(f, password) ==
    decryptKey(f.encryptedKey.encryptedData, f.encryptedKey.iv,
               f.encryptedKey.authTag, deriveKey(password, f.fileSalt)) # AUTH_FAILED

Outsider(f, uid) == f.owner # uid /\ users[uid].role # "admin"

(* C9: a password download of a vault file by an authenticated requester   *)
(* who is neither its owner nor admin answers 403 whatever the password,   *)
(* before any key is derived or the blob is read; a password download of a *)
(* public file with the right password answers 200 with the plaintext for  *)
(* admin, premium and guest alike.                                         *)
C9_VaultDeniedPublicPermitted ==
    (last.op = "download" /\ last.uid # 0 /\ last.fid \in DOMAIN files) =>
        LET f == files[last.fid] IN
        /\ (f.accessLevel = "vault" /\ Outsider(f, last.uid)) =>
                /\ last.status = 403
                /\ ~last.derivedKey
                /\ ~last.readBlob
                /\ last.body = NoBody
        /\ (f.accessLevel = "public" /\ Unwraps(f, last.password)) =>
                /\ last.status = 200
                /\ calculateHash(last.body.plain) = f.sha256Hash

C9_Witness ==
    /\ last.op = "download"
    /\ last.status = 403
    /\ last.role = "premium"
    /\ last.fid \in DOMAIN files
    /\ Unwraps(files[last.fid], last.password)
    /\ \E i \in DOMAIN files :
          files[i].accessLevel = "public" /\ files[i].downloadCount > 0

(* C10: no download, by password or by key exchange, answers a requester   *)
(* who is neither owner nor admin with any content of a vault file: no     *)
(* plaintext, no stored ciphertext, no iv, authentication tag or digest.   *)
C10_NoVaultContentForOutsiders ==
    (/\ last.op \in {"download", "keyExchange"}
     /\ last.uid # 0
     /\ last.fid \in DOMAIN files
     /\ files[last.fid].accessLevel = "vault"
     /\ Outsider(files[last.fid], last.uid)) => last.body = NoBody

----------------------------------------------------------------------------
(* Vault: one stored file, downloads of it, and alterations of what is     *)
(* stored (disk or database corruption, an attacker with storage access)   *)
Forged == <<"forged">>

TamperKinds == {"ciphertext", "authTag", "digest"}

Stored(fid) ==
    /\ fid \in DOMAIN files
    /\ [files[fid] EXCEPT !.downloadCount = 0] = orig[fid].file
    /\ blobs[fid] = orig[fid].blob

tamper(fid, kind) ==
    /\ Stored(fid)
    /\ last' = [Req("tamper") EXCEPT !.fid = fid]
    /\ IF kind = "ciphertext"
       THEN /\ blobs' = [blobs EXCEPT ![fid] = [@ EXCEPT ![2] = Forged]]
            /\ UNCHANGED files
       ELSE IF kind = "authTag"
       THEN /\ files' = [files EXCEPT ![fid].authTag = [@ EXCEPT ![2] = Forged]]
            /\ UNCHANGED blobs
       ELSE /\ files' = [files EXCEPT ![fid].sha256Hash = calculateHash(Forged)]
            /\ UNCHANGED blobs
    /\ UNCHANGED orig
    /\ FileHistUnchanged

Plaintexts == {<<"report">>, <<"memo">>}
UploadPasswords == {"Op3nSesame!", "guess"}
Owners == {t \in tokens : users[t.id].username = "pat"}

NextVault ==
    \/ /\ files = <<>>
       /\ \E t \in Owners, c \in Plaintexts, a \in AccessLevels,
             p \in UploadPasswords : uploadFile(t, c, a, p)
    \/ \E t \in Requesters, i \in FileIds, p \in FilePasswords :
            downloadFile(t, i, p)
    \/ \E i \in DOMAIN files, k \in TamperKinds : tamper(i, k)

SpecVault == InitFiles /\ [][NextVault]_vars

(* a password download that found its file, by a requester the access     *)
(* rule admits, with a password supplied                                   *)
AuthorizedDownload ==
    /\ last.op = "download"
    /\ last.uid # 0
    /\ last.file # NoFile
    /\ ~vaultDenied(last.file, last.uid)
    /\ last.password # ""

Audited(action) == \E i \in DOMAIN last.audit : last.audit[i].action = action

(* what the stored bytes of the found file open to *)
UnwrappedKey ==
    decryptKey(last.file.encryptedKey.encryptedData, last.file.encryptedKey.iv,
               last.file.encryptedKey.authTag,
               deriveKey(last.password, last.file.fileSalt))

OpenedBytes == decryptFile(last.blob, last.file.iv, last.file.authTag, UnwrappedKey)

(* C11: while the stored record and blob are as the upload left them, a    *)
(* password download by an admitted requester with the upload password     *)
(* answers 200 with exactly the uploaded plaintext, integrity PASSED, and   *)
(* the stored digest is the hash of that plaintext.                        *)
C11_RoundTrip ==
    (/\ AuthorizedDownload
     /\ last.password = orig[last.fid].password
     /\ [last.file EXCEPT !.downloadCount = 0] = orig[last.fid].file
     /\ last.blob = orig[last.fid].blob) =>
        /\ last.status = 200
        /\ last.body.plain = orig[last.fid].content
        /\ Audited("INTEGRITY_CHECK_PASSED")
        /\ last.file.sha256Hash = calculateHash(orig[last.fid].content)

C11_Witness ==
    /\ AuthorizedDownload
    /\ last.status = 200
    /\ last.body.plain = <<"memo">>
    /\ last.password = "guess"
    /\ last.role = "admin"

(* C12: an admitted download with a password other than the upload         *)
(* password answers 401 and never the integrity failure; with the upload   *)
(* password on a file whose ciphertext or authentication tag was altered   *)
(* it answers the integrity failure and never 401.                         *)
C12_WrongPasswordVersusTamper ==
    AuthorizedDownload =>
        /\ last.password # orig[last.fid].password =>
                /\ last.status = 401
                /\ ~Audited("INTEGRITY_CHECK_FAILED")
        /\ (/\ last.password = orig[last.fid].password
            /\ \/ last.blob # orig[last.fid].blob
               \/ last.file.authTag # orig[last.fid].file.authTag) =>
                /\ last.status = 500
                /\ Audited("INTEGRITY_CHECK_FAILED")

C12_Witness ==
    /\ AuthorizedDownload
    /\ last.password = orig[last.fid].password
    /\ last.file.authTag # orig[last.fid].file.authTag
    /\ last.status = 500

C14_WrongPasswordAudited ==
    (AuthorizedDownload /\ UnwrappedKey = AUTH_FAILED) =>
        \E i \in DOMAIN last.audit :
            /\ last.audit[i].status = "FAILED"
            /\ last.audit[i].action # "INTEGRITY_CHECK_FAILED"

----------------------------------------------------------------------------
(* Legacy records: a file stored before per-file salts (fileSalt is not    *)
(* required by the schema) and an owner account with or without a salt     *)
LegacyFile(uid, fileSalt, content, password) ==
    LET fileKey == generateKey(1)
        encryptedFile == encryptFile(content, fileKey, 1)
        masterKey == deriveKey(password, IF fileSalt # NoSalt THEN fileSalt
                                         ELSE generateSalt(0 - uid))
    IN  [NoFile EXCEPT !.encryptedPath = 1, !.owner = uid, !.accessLevel = "vault",
                       !.iv = encryptedFile.iv, !.authTag = encryptedFile.authTag,
                       !.fileSalt = fileSalt,
                       !.encryptedKey = encryptKey(fileKey, masterKey, 1),
                       !.keyExchangeEnabled = TRUE,
                       !.sha256Hash = calculateHash(content)]

InitLegacy ==
    /\ now = 0
    /\ auditUp = TRUE
    /\ \E hasSalt \in BOOLEAN :
          users = <<Member("root", "root@fv.io", "admin"),
                    [Member("pat", "pat@fv.io", "premium")
                        EXCEPT !.encryptionSalt = hasSalt],
                    Member("quinn", "quinn@fv.io", "premium"),
                    Member("gus", "gus@fv.io", "guest")>>
    /\ tokens = {accessToken(i, users[i].role) : i \in DOMAIN users}
    /\ \E fileSalt \in {generateSalt(1), NoSalt} :
          files = <<LegacyFile(2, fileSalt, <<"report">>, "Op3nSesame!")>>
    /\ blobs = <<encryptFile(<<"report">>, generateKey(1), 1).encryptedData>>
    /\ orig = <<[content |-> <<"report">>, password |-> "Op3nSesame!",
                 file |-> files[1], blob |-> blobs[1]]>>
    /\ reg = <<>>
    /\ jobs = <<>>
    /\ adminAsks = -1
    /\ last = R0
    /\ pwPassed = DOMAIN users
    /\ mfaPassed = DOMAIN users
    /\ mfaFailedWith = {}
    /\ run = [i \in DOMAIN users |-> 0]

NextLegacy ==
    \/ \E t \in Owners, c \in Contents, a \in AccessLevels, p \in UploadPasswords :
            uploadFile(t, c, a, p)
    \/ \E t \in Requesters, i \in FileIds, p \in FilePasswords :
            downloadFile(t, i, p)

SpecLegacy == InitLegacy /\ [][NextLegacy]_vars

(* C15: an admitted password download derives its key from the file's own *)
(* salt whenever the file has one, without reading or needing the owner    *)
(* account's salt; it reads the owner's salt only when the file has none;  *)
(* and with neither salt it fails before any key derivation, unwrap or     *)
(* blob read, leaving the download counter unchanged.                      *)
C15_SaltResolution ==
    AuthorizedDownload =>
        /\ last.file.fileSalt # NoSalt =>
                /\ ~last.ownerSalt
                /\ last.password = orig[last.fid].password => last.status = 200
        /\ (last.file.fileSalt = NoSalt /\ users[last.file.owner].encryptionSalt) =>
                /\ last.ownerSalt
                /\ last.password = orig[last.fid].password => last.status = 200
        /\ (last.file.fileSalt = NoSalt /\ ~users[last.file.owner].encryptionSalt) =>
                /\ last.status = 500
                /\ ~last.derivedKey
                /\ ~last.readBlob
                /\ last.body = NoBody
                /\ files[last.fid].downloadCount = last.file.downloadCount

C15_Witness ==
    /\ AuthorizedDownload
    /\ last.file.fileSalt = NoSalt
    /\ ~users[last.file.owner].encryptionSalt
    /\ last.password = orig[last.fid].password
    /\ last.status = 500

----------------------------------------------------------------------------
(* File requests in flight: a handler yields at each await, so the steps   *)
(* of concurrent downloadFile and deleteFile calls interleave. Each job    *)
(* holds the document its findById returned; save() writes back only the   *)
(* paths the handler modified on that document.                            *)
NewJob(op, uid, password) ==
    [op |-> op, uid |-> uid, password |-> password, pc |-> "find", status |-> 0,
     file |-> NoFile, plain |-> <<>>, audit |-> <<>>]

JobsUnchanged ==
    UNCHANGED <<users, tokens, now, auditUp, reg, orig, adminAsks, last, pwPassed,
                mfaPassed, mfaFailedWith, run>>

Answer(p, status) == jobs' = [jobs EXCEPT ![p].pc = "done", ![p].status = status]

(* const file = await File.findById(req.params.id), and the checks up to   *)
(* the key unwrap                                                          *)
dlFind(p, fid) ==
    LET j == jobs[p]
        f == files[fid]
        saltToUse == IF f.fileSalt # NoSalt THEN f.fileSalt
                     ELSE encryptionSalt(f.owner)
        fileKey == decryptKey(f.encryptedKey.encryptedData, f.encryptedKey.iv,
                              f.encryptedKey.authTag,
                              deriveKey(j.password, saltToUse))
    IN
    /\ j.op = "download" /\ j.pc = "find"
    /\ IF ~findById(fid) THEN Answer(p, 404)
       ELSE IF vaultDenied(f, j.uid) THEN Answer(p, 403)
       ELSE IF j.password = "" THEN Answer(p, 400)
       ELSE IF saltToUse = NoSalt THEN Answer(p, 500)
       ELSE IF fileKey = AUTH_FAILED THEN Answer(p, 401)
       ELSE jobs' = [jobs EXCEPT ![p].pc = "read", ![p].file = f]
    /\ UNCHANGED <<files, blobs>>
    /\ JobsUnchanged

(* await fs.readFile(...), decryptFile, verifyIntegrity *)
dlRead(p, fid) ==
    LET j == jobs[p]
        f == j.file
        saltToUse == IF f.fileSalt # NoSalt THEN f.fileSalt
                     ELSE encryptionSalt(f.owner)
        fileKey == decryptKey(f.encryptedKey.encryptedData, f.encryptedKey.iv,
                              f.encryptedKey.authTag,
                              deriveKey(j.password, saltToUse))
        encryptedData == blobs[f.encryptedPath]
        decryptedData == decryptFile(encryptedData, f.iv, f.authTag, fileKey)
        failed == <<Audit("INTEGRITY_CHECK_FAILED", "FAILED")>>
    IN
    /\ j.op = "download" /\ j.pc = "read"
    /\ IF encryptedData = ENOENT THEN Answer(p, 500)
       ELSE IF decryptedData = AUTH_FAILED
            THEN jobs' = [jobs EXCEPT ![p].pc = "done", ![p].status = 500,
                                      ![p].audit = failed]
       ELSE IF ~verifyIntegrity(decryptedData, f.sha256Hash)
            THEN jobs' = [jobs EXCEPT ![p].pc = "done", ![p].status = 500,
                                      ![p].audit = failed]
       ELSE jobs' = [jobs EXCEPT ![p].pc = "save", ![p].plain = decryptedData,
                        ![p].audit = <<Audit("INTEGRITY_CHECK_PASSED", "SUCCESS")>>]
    /\ UNCHANGED <<files, blobs>>
    /\ JobsUnchanged

(* await file.save() after file.downloadCount += 1: $set of that path *)
saveCount_wholeDocument(stored, doc) == doc

saveCount(stored, doc) == [stored EXCEPT !.downloadCount = doc.downloadCount]

dlSave(p, fid) ==
    LET j == jobs[p]
        doc == [j.file EXCEPT !.downloadCount = @ + 1]
    IN
    /\ j.op = "download" /\ j.pc = "save"
    /\ files' = [files EXCEPT ![fid] = saveCount(files[fid], doc)]
    /\ jobs' = [jobs EXCEPT ![p].pc = "done", ![p].status = 200, ![p].file = doc,
                    ![p].audit = @ \o <<Audit("FILE_DOWNLOAD", "SUCCESS")>>]
    /\ UNCHANGED blobs
    /\ JobsUnchanged

(* const file = await File.findById(req.params.id), ownership check *)
delFind(p, fid) ==
    LET j == jobs[p]
        f == files[fid]
    IN
    /\ j.op = "delete" /\ j.pc = "find"
    /\ IF ~findById(fid) THEN Answer(p, 404)
       ELSE IF notOwnerOrAdmin(f, j.uid) THEN Answer(p, 403)
       ELSE jobs' = [jobs EXCEPT ![p].pc = "save", ![p].file = f]
    /\ UNCHANGED <<files, blobs>>
    /\ JobsUnchanged

(* file.isDeleted = true; file.deletedAt = new Date(); await file.save() *)
delSave(p, fid) ==
    /\ jobs[p].op = "delete" /\ jobs[p].pc = "save"
    /\ files' = [files EXCEPT ![fid].isDeleted = TRUE, ![fid].deletedAt = now]
    /\ jobs' = [jobs EXCEPT ![p].pc = "unlink"]
    /\ UNCHANGED blobs
    /\ JobsUnchanged

(* await fs.unlink(...), its failure caught and logged; then 200 *)
delUnlink(p, fid, unlinked) ==
    /\ jobs[p].op = "delete" /\ jobs[p].pc = "unlink"
    /\ blobs' = IF unlinked
                THEN [blobs EXCEPT ![jobs[p].file.encryptedPath] = ENOENT]
                ELSE blobs
    /\ jobs' = [jobs EXCEPT ![p].pc = "done", ![p].status = 200,
                    ![p].audit = <<Audit("FILE_DELETE", "SUCCESS")>>]
    /\ UNCHANGED files
    /\ JobsUnchanged

JobKinds ==
    {NewJob("download", u, p) : u \in {1, 2}, p \in {"Op3nSesame!", "guess"}}
        \cup {NewJob("delete", u, "") : u \in {2, 3}}

InitJobs ==
    /\ now = 0
    /\ auditUp = TRUE
    /\ users = <<Member("root", "root@fv.io", "admin"),
                 Member("pat", "pat@fv.io", "premium"),
                 Member("quinn", "quinn@fv.io", "premium"),
                 Member("gus", "gus@fv.io", "guest")>>
    /\ tokens = {accessToken(i, users[i].role) : i \in DOMAIN users}
    /\ files = <<LegacyFile(2, generateSalt(1), <<"report">>, "Op3nSesame!")>>
    /\ blobs = <<encryptFile(<<"report">>, generateKey(1), 1).encryptedData>>
    /\ orig = <<[content |-> <<"report">>, password |-> "Op3nSesame!",
                 file |-> files[1], blob |-> blobs[1]]>>
    /\ reg = <<>>
    /\ jobs \in [1..MaxJobs -> JobKinds]
    /\ adminAsks = -1
    /\ last = R0
    /\ pwPassed = DOMAIN users
    /\ mfaPassed = DOMAIN users
    /\ mfaFailedWith = {}
    /\ run = [i \in DOMAIN users |-> 0]

NextJobs ==
    \/ \E p \in DOMAIN jobs : dlFind(p, 1)
    \/ \E p \in DOMAIN jobs : dlRead(p, 1)
    \/ \E p \in DOMAIN jobs : dlSave(p, 1)
    \/ \E p \in DOMAIN jobs : delFind(p, 1)
    \/ \E p \in DOMAIN jobs : delSave(p, 1)
    \/ \E p \in DOMAIN jobs, unlinked \in BOOLEAN : delUnlink(p, 1, unlinked)

SpecJobs == InitJobs /\ [][NextJobs]_vars

AllDone == \A p \in DOMAIN jobs : jobs[p].pc = "done"

(* C16: when all in-flight password downloads of a file have answered,    *)
(* its download counter has grown by exactly the number that succeeded.    *)
C16_NoLostIncrement ==
    AllDone =>
        files[1].downloadCount = orig[1].file.downloadCount
            + Cardinality({p \in DOMAIN jobs :
                             jobs[p].op = "download" /\ jobs[p].status = 200})

(* C17: with a deleteFile and a password download of the same file in      *)
(* flight together, every download that has answered either carries the    *)
(* complete original plaintext with integrity PASSED or an error and no    *)
(* bytes, and once the owner's delete has answered the record is          *)
(* soft-deleted.                                                           *)
C17_DeleteVersusDownload ==
    /\ \A p \in DOMAIN jobs :
          (jobs[p].op = "download" /\ jobs[p].pc = "done") =>
              \/ /\ jobs[p].status = 200
                 /\ jobs[p].plain = orig[1].content
                 /\ \E i \in DOMAIN jobs[p].audit :
                        jobs[p].audit[i].action = "INTEGRITY_CHECK_PASSED"
              \/ /\ jobs[p].status >= 400
                 /\ jobs[p].plain = <<>>
    /\ (AllDone /\ \E p \in DOMAIN jobs :
                      jobs[p].op = "delete" /\ jobs[p].uid = orig[1].file.owner)
            => files[1].isDeleted /\ files[1].deletedAt # None

C17_Witness ==
    /\ AllDone
    /\ \E p \in DOMAIN jobs :
          jobs[p].op = "delete" /\ jobs[p].status = 200
    /\ \E p \in DOMAIN jobs :
          jobs[p].op = "download" /\ jobs[p].status = 200
                                 /\ jobs[p].file.downloadCount = 1
    /\ files[1].isDeleted
    /\ files[1].downloadCount = 1
    /\ blobs[1] = ENOENT

----------------------------------------------------------------------------
(* Sharing and deletion of one stored file, as time passes *)
ExpiryInputs == {[given |-> FALSE, value |-> 0], [given |-> TRUE, value |-> 0],
                 [given |-> TRUE, value |-> MFA_TOKEN_TTL]}

ShareTokens == 1..(MaxShares + 1)

Members == tokens

NextShare ==
    \/ /\ files = <<>>
       /\ \E t \in Owners, a \in AccessLevels :
             uploadFile(t, <<"report">>, a, "Op3nSesame!")
    \/ \E t \in Members, i \in DOMAIN files, m \in ExpiryInputs :
            shareFile(t, i, m)
    \/ \E t \in Members, i \in DOMAIN files, unlinked \in BOOLEAN :
            deleteFile(t, i, unlinked)
    \/ \E k \in ShareTokens : getSharedFile(k)
    \/ \E t \in Owners, i \in DOMAIN files :
            Gone(i) /\ downloadFile(t, i, "Op3nSesame!")
    \/ \E t \in Owners, i \in DOMAIN files, k \in PublicKeys :
            Gone(i) /\ keyExchangeDownload(t, i, k)
    \/ Tick

SpecShare == InitFiles /\ [][NextShare]_vars

(* C18: a deleteFile that answered 200 left the record with its           *)
(* soft-delete flag and timestamp set, whether or not the blob could be    *)
(* unlinked; from then on a password download, a key-exchange download     *)
(* carrying a public key, a share or a delete by a user the route admits,  *)
(* and a lookup of the file's share token, all answer 404.                 *)
C18_DeletedIsNotFound ==
    /\ (last.op = "delete" /\ last.status = 200) =>
            /\ files[last.fid].isDeleted
            /\ files[last.fid].deletedAt = last.time
    /\ (last.gone /\ last.uid # 0) =>
            /\ last.op = "download" => last.status = 404
            /\ (last.op = "keyExchange" /\ last.publicKey # "") => last.status = 404
            /\ (last.op \in {"share", "delete"} /\ last.role \in {"admin", "premium"})
                    => last.status = 404
    /\ (/\ last.op = "getShared"
        /\ \E i \in DOMAIN files :
              files[i].isDeleted /\ files[i].shareToken = last.shareToken)
            => last.status = 404

C18_Witness ==
    /\ last.op = "getShared"
    /\ last.status = 404
    /\ \E i \in DOMAIN files :
          /\ files[i].isDeleted
          /\ files[i].shareToken = last.shareToken
          /\ files[i].shareExpiry > now
          /\ blobs[i] # ENOENT

(* C19: a share or delete request by an authenticated user who is neither  *)
(* the file's owner nor admin is denied with 403 and leaves the file       *)
(* record and the stored blob as they were.                                *)
C19_OutsiderCannotShareOrDelete ==
    (/\ last.op \in {"share", "delete"}
     /\ last.uid # 0
     /\ last.file # NoFile
     /\ ~last.gone
     /\ Outsider(last.file, last.uid)) =>
        /\ last.status = 403
        /\ files[last.fid] = last.file
        /\ blobs[last.fid] = last.blob

C19_Witness ==
    /\ last.op = "delete"
    /\ last.role = "premium"
    /\ last.file.accessLevel = "public"
    /\ Outsider(last.file, last.uid)
    /\ last.status = 403

(* C20: a share-token lookup answers 200 exactly when a non-deleted file   *)
(* stores that token with an expiry later than the lookup, and 404         *)
(* otherwise; the expiry shareFile stores is the share time plus the       *)
(* requested minutes, or plus 60 when none were requested.                 *)
C20_ShareLookupAndExpiry ==
    /\ last.op = "getShared" =>
            /\ last.status \in {200, 404}
            /\ last.status = 200 <=>
                   \E i \in DOMAIN files :
                       /\ ~files[i].isDeleted
                       /\ files[i].shareToken = last.shareToken
                       /\ files[i].shareExpiry > last.time
    /\ (last.op = "share" /\ last.status = 200) =>
            files[last.fid].shareExpiry =
                last.time + (IF last.minutes.given THEN last.minutes.value
                             ELSE SHARE_DEFAULT_MINUTES)

----------------------------------------------------------------------------
(* The audit trail of the authentication handlers (checked under Spec) *)

(* the request got past input validation and its token middleware, so the  *)
(* handler's own branches decided the answer                               *)
Processed ==
    /\ last.status # 400
    /\ last.op \in {"verifyMFA", "logout"} => last.uid # 0

(* C21: every register, login, verifyMFA and logout request that its      *)
(* handler processes appends at least one audit event, whatever the        *)
(* outcome.                                                                *)
C21_EveryAuthRequestAudited ==
    (last.op \in {"register", "login", "verifyMFA", "logout"} /\ Processed)
        => last.audit # <<>>

----------------------------------------------------------------------------
(* The audit trail of denials (checked under SpecShare) *)

(* C22: every request of an authenticated account that is answered 403     *)
(* because its role or its ownership does not match, by verifyRole or by   *)
(* the owner-or-admin test inside downloadFile, shareFile or deleteFile,   *)
(* appends an audit event with status DENIED.                              *)
C22_DenialsAudited ==
    (/\ last.op \in {"download", "share", "delete"}
     /\ last.uid # 0
     /\ last.status = 403) =>
        \E i \in DOMAIN last.audit : last.audit[i].status = "DENIED"

----------------------------------------------------------------------------
(* What login and register answer, as a function of the user collection   *)
Answered(status, message) == [status |-> status, message |-> message]

findOneByEmail(us, email) ==
    IF \E i \in DOMAIN us : us[i].email = email
    THEN CHOOSE i \in DOMAIN us : us[i].email = email
    ELSE 0

loginResponse(us, email, password) ==
    LET uid == findOneByEmail(us, email) IN
    IF email = "" \/ password = ""
    THEN Answered(400, "Please provide email and password.")
    ELSE IF uid = 0 THEN Answered(401, "Invalid credentials.")
    ELSE IF isLocked(us[uid])
    THEN Answered(423, "Account is temporarily locked. Try again later.")
    ELSE IF ~comparePassword(us[uid], password)
    THEN Answered(401, "Invalid credentials.")
    ELSE Answered(200, "Password verified. Please enter MFA code.")

registerResponse(us, username, email, password, role) ==
    IF username = "" \/ email = "" \/ password = ""
    THEN Answered(400, "Please provide username, email, and password.")
    ELSE IF Len(password) < MIN_PASSWORD_LENGTH
    THEN Answered(400, "Password must be at least 8 characters long.")
    ELSE IF existingUser(us, username, email)
    THEN Answered(400, "User with this email or username already exists.")
    ELSE IF allowedRole(role) = "admin" /\ existingAdmin(us)
    THEN Answered(400, "Admin account already exists. Only one admin is allowed.")
    ELSE Answered(201, "Registration successful. Please set up MFA.")

(* the collection as it would be had no account this email *)
Without(us, email) == SelectSeq(us, LAMBDA u : u.email # email)

(* C23: for every email that has an account and every password other than *)
(* that account's, login answers as it would if no account had the email,  *)
(* whether the account is locked or not, and so does register of a fresh   *)
(* handle with that email.                                                 *)
C23_NoAccountOracle ==
    \A i \in DOMAIN users :
        LET e == users[i].email IN
        /\ \A p \in Passwords :
              ~comparePassword(users[i], p) =>
                  loginResponse(users, e, p) = loginResponse(Without(users, e), e, p)
        /\ registerResponse(users, "newcomer", e, "Sup3rSecret!", "guest")
              = registerResponse(Without(users, e), "newcomer", e, "Sup3rSecret!", "guest")

(* the login half of C23 on its own *)
LoginNoAccountOracle ==
    \A i \in DOMAIN users, p \in Passwords :
        ~comparePassword(users[i], p) =>
            loginResponse(users, users[i].email, p)
                = loginResponse(Without(users, users[i].email), users[i].email, p)

(* the login action answers what loginResponse computes *)
LoginAnswersAsComputed ==
    [][\A e \in Emails \cup {""}, p \in Passwords \cup {""} :
          login(e, p) => last'.status = loginResponse(users, e, p).status]_vars

----------------------------------------------------------------------------
(* The three access-control middlewares, with the message each answers *)

(* res.status(...).json({ message }) of verifyRole and verifyResourceAccess *)
aclMessage(status) ==
    IF status = 401 THEN "Authentication required."
    ELSE IF status = 403 THEN "You do not have permission to perform this action."
    ELSE IF status = 500 THEN "Configuration error."
    ELSE ""

(* verifyOwnership(getOwnerId): ownerId is what getOwnerId(req) resolves   *)
(* to, 0 if nothing                                                        *)
verifyOwnership(ownerId, uid) ==
    IF uid = 0
    THEN [status |-> 401, audit |-> <<>>, message |-> "Authentication required."]
    ELSE IF users[uid].role = "admin"
    THEN [status |-> 0, audit |-> <<>>, message |-> ""]
    ELSE IF ownerId = 0
    THEN [status |-> 404, audit |-> <<>>, message |-> "Resource not found."]
    ELSE IF uid # ownerId
    THEN [status |-> 403, audit |-> logDeniedAccess,
          message |-> "You do not have permission to access this resource."]
    ELSE [status |-> 0, audit |-> <<>>, message |-> ""]

RoleSets == {{"admin"}, {"admin", "premium"}}
Actions == {"read", "write", "delete"}

(* what the caller sees of a denial *)
Shape(status, message) == [status |-> status, message |-> message]

(* C24: for an authenticated account, whenever verifyRole,                 *)
(* verifyResourceAccess and verifyOwnership each deny a request, the three *)
(* answer the same status with the same message, and each records an       *)
(* audit event with status DENIED.                                         *)
C24_UniformDenial ==
    \A uid \in DOMAIN users, allowed \in RoleSets, resource \in DOMAIN ACL_RULES,
       action \in Actions, ownerId \in DOMAIN users :
        LET r == verifyRole(allowed, uid)
            a == verifyResourceAccess(resource, action, uid)
            o == verifyOwnership(ownerId, uid)
        IN
        (r.status = 403 /\ a.status = 403 /\ o.status = 403) =>
            /\ Shape(r.status, aclMessage(r.status)) = Shape(a.status, aclMessage(a.status))
            /\ Shape(a.status, aclMessage(a.status)) = Shape(o.status, o.message)
            /\ \A x \in {r, a} : \E i \in DOMAIN x.audit : x.audit[i].status = "DENIED"
            /\ \E i \in DOMAIN o.audit : o.audit[i].status = "DENIED"

(* C24 without the comparison of verifyOwnership's message *)
UniformDenialButOwnershipMessage ==
    \A uid \in DOMAIN users, allowed \in RoleSets, resource \in DOMAIN ACL_RULES,
       action \in Actions, ownerId \in DOMAIN users :
        LET r == verifyRole(allowed, uid)
            a == verifyResourceAccess(resource, action, uid)
            o == verifyOwnership(ownerId, uid)
        IN
        (r.status = 403 /\ a.status = 403 /\ o.status = 403) =>
            /\ Shape(r.status, aclMessage(r.status)) = Shape(a.status, aclMessage(a.status))
            /\ a.status = o.status
            /\ \A x \in {r, a} : \E i \in DOMAIN x.audit : x.audit[i].status = "DENIED"
            /\ \E i \in DOMAIN o.audit : o.audit[i].status = "DENIED"

----------------------------------------------------------------------------
(* The lock and the second factor (checked under Spec) *)

(* C26: a verifyMFA request for an account whose lock-until is in the      *)
(* future issues no full-access token and leaves lock-until as it was,     *)
(* also when it presents an unexpired pending token and a valid code.      *)
C26_LockBlocksSecondFactor ==
    (/\ last.op = "verifyMFA"
     /\ last.uid # 0
     /\ last.pre.lockUntil # None
     /\ last.pre.lockUntil > last.time) =>
        /\ last.issued = NoToken
        /\ users[last.uid].lockUntil = last.pre.lockUntil

----------------------------------------------------------------------------
(* Concurrent logins for one account: each handler loads the account,     *)
(* and incrementLoginAttempts decides from that loaded copy which update  *)
(* it sends to the stored document                                         *)
LoginJob(email, password) ==
    [op |-> "login", email |-> email, password |-> password, pc |-> "find",
     uid |-> 0, this |-> NoUser, status |-> 0]

(* this.updateOne(...) of incrementLoginAttempts: $set/$unset or $inc on   *)
(* the stored document, chosen from the fields of the loaded copy          *)
updateLoginAttempts(stored, this) ==
    IF this.lockUntil # None /\ this.lockUntil < now
    THEN [stored EXCEPT !.loginAttempts = 1, !.lockUntil = None]
    ELSE IF this.loginAttempts + 1 >= MAX_LOGIN_ATTEMPTS
         THEN [stored EXCEPT !.loginAttempts = @ + 1, !.lockUntil = now + LOCK_TIME]
         ELSE [stored EXCEPT !.loginAttempts = @ + 1]

LoginRaceUnchanged ==
    UNCHANGED <<now, auditUp, files, blobs, reg, orig, adminAsks, last, pwPassed, mfaPassed,
                mfaFailedWith, run>>

(* await User.findOne({ email }).select('+password'), isLocked,            *)
(* comparePassword and, for the right password, jwt.sign                   *)
lgFind(p) ==
    LET j == jobs[p]
        uid == FindByEmail(j.email)
        this == users[uid]
    IN
    /\ j.pc = "find"
    /\ LoginRaceUnchanged
    /\ UNCHANGED users
    /\ IF uid = 0
       THEN /\ jobs' = [jobs EXCEPT ![p] = [j EXCEPT !.pc = "done", !.status = 401]]
            /\ UNCHANGED tokens
       ELSE IF isLocked(this)
       THEN /\ jobs' = [jobs EXCEPT ![p] =
                    [j EXCEPT !.pc = "done", !.status = 423, !.uid = uid, !.this = this]]
            /\ UNCHANGED tokens
       ELSE IF ~comparePassword(this, j.password)
       THEN /\ jobs' = [jobs EXCEPT ![p] =
                    [j EXCEPT !.pc = "increment", !.uid = uid, !.this = this]]
            /\ UNCHANGED tokens
       ELSE /\ CanIssue(mfaToken(uid))
            /\ tokens' = tokens \cup {mfaToken(uid)}
            /\ jobs' = [jobs EXCEPT ![p] =
                    [j EXCEPT !.pc = "done", !.status = 200, !.uid = uid, !.this = this]]

(* await user.incrementLoginAttempts(), the audit event and the 401 *)
lgIncrement(p) ==
    LET j == jobs[p] IN
    /\ j.pc = "increment"
    /\ users' = [users EXCEPT ![j.uid] = updateLoginAttempts(@, j.this)]
    /\ jobs' = [jobs EXCEPT ![p] = [j EXCEPT !.pc = "done", !.status = 401]]
    /\ UNCHANGED tokens
    /\ LoginRaceUnchanged

LoginKinds ==
    {LoginJob("pat@fv.io", "wrongpass"), LoginJob("pat@fv.io", "Sup3rSecret!"),
     LoginJob("nobody@fv.io", "wrongpass")}

(* pat has failed to log in up to four times in a row and is not locked *)
InitLoginRace ==
    /\ now = 0
    /\ auditUp = TRUE
    /\ \E n \in 0..(MAX_LOGIN_ATTEMPTS - 1) :
          users = << [NewUser("root", "root@fv.io", "Sup3rSecret!", "admin")
                          EXCEPT !.mfaVerified = TRUE, !.lastLogin = 0],
                     [NewUser("pat", "pat@fv.io", "Sup3rSecret!", "premium")
                          EXCEPT !.loginAttempts = n] >>
    /\ tokens = {}
    /\ files = <<>>
    /\ blobs = <<>>
    /\ reg = <<>>
    /\ jobs \in [1..MaxJobs -> LoginKinds]
    /\ orig = <<>>
    /\ last = R0
    /\ pwPassed = {}
    /\ mfaPassed = {}
    /\ mfaFailedWith = {}
    /\ run = <<0, 0>>
    /\ adminAsks = -1

NextLoginRace ==
    \/ \E p \in DOMAIN jobs : lgFind(p)
    \/ \E p \in DOMAIN jobs : lgIncrement(p)
    \/ Tick

SpecLoginRace == InitLoginRace /\ [][NextLoginRace]_vars

(* C27: in every reachable state, concurrent failed logins included, the   *)
(* failed-login counter of an account is at most 5, and a counter of 5 or  *)
(* more means that lock-until is set.                                      *)
C27_CounterBoundedAndLocked ==
    \A i \in DOMAIN users :
        /\ users[i].loginAttempts <= MAX_LOGIN_ATTEMPTS
        /\ users[i].loginAttempts >= MAX_LOGIN_ATTEMPTS => users[i].lockUntil # None

(* the counter bound of C27 on its own *)
CounterBounded ==
    \A i \in DOMAIN users : users[i].loginAttempts <= MAX_LOGIN_ATTEMPTS

(* the lock half of C27 on its own *)
CounterAtThresholdLocked ==
    \A i \in DOMAIN users :
        users[i].loginAttempts >= MAX_LOGIN_ATTEMPTS => users[i].lockUntil # None

----------------------------------------------------------------------------
(* Role changes while full-access tokens issued before them are in use *)
RoleTargets == {i \in DOMAIN users : users[i].username \in {"pat", "gus"}}

NextRoles ==
    \/ \E t \in tokens, id \in RoleTargets, r \in Roles : updateUserRole(t, id, r)
    \/ \E t \in tokens, id \in RoleTargets : unlockUser(t, id)
    \/ /\ files = <<>>
       /\ \E t \in Uploaders : uploadFile(t, <<"report">>, "vault", "Op3nSesame!")
    \/ \E t \in tokens, i \in DOMAIN files :
            shareFile(t, i, [given |-> FALSE, value |-> 0])
    \/ \E t \in tokens, i \in DOMAIN files : deleteFile(t, i, TRUE)

SpecRoles == InitFiles /\ [][NextRoles]_vars

(* C28: a request under a full-access token is admitted or refused by the  *)
(* role stored for the account when the request is made, whatever role    *)
(* the token carries: upload, share and delete need a stored role of       *)
(* admin or premium, share and delete of another account's file and the    *)
(* user-management operations need a stored role of admin.                 *)
C28_StoredRoleDecides ==
    /\ (last.op = "upload" /\ last.uid # 0) =>
            (last.status = 403 <=> last.role \notin {"admin", "premium"})
    /\ (last.op \in {"share", "delete"} /\ last.uid # 0) =>
            /\ last.role \notin {"admin", "premium"} => last.status = 403
            /\ (last.role \in {"admin", "premium"} /\ last.file # NoFile
                    /\ ~last.gone) =>
                  (last.status = 403 <=>
                      (last.role # "admin" /\ last.file.owner # last.uid))
    /\ (last.op = "unlockUser" /\ last.uid # 0) =>
            (last.status = 403 <=> users[last.uid].role # "admin")

(* gus, whose token says guest, uploads after being made premium *)
C28_Witness ==
    /\ last.op = "upload"
    /\ last.status = 201
    /\ last.token.role = "guest"
    /\ last.role = "premium"

----------------------------------------------------------------------------
(* Requests without a full-access token: no token, a forged one, the      *)
(* pending token of an account that has only passed its password, and a    *)
(* share token                                                             *)
InitPublic ==
    /\ now = 0
    /\ auditUp = TRUE
    /\ users = <<Member("root", "root@fv.io", "admin"),
                 Member("pat", "pat@fv.io", "premium"),
                 NewUser("gus", "gus@fv.io", "Sup3rSecret!", "guest")>>
    /\ tokens = {accessToken(i, users[i].role) :
                    i \in {j \in DOMAIN users : users[j].mfaVerified}}
                \cup {mfaToken(i) : i \in {j \in DOMAIN users : ~users[j].mfaVerified}}
    /\ files = <<>>
    /\ blobs = <<>>
    /\ reg = <<>>
    /\ jobs = <<>>
    /\ orig = <<>>
    /\ adminAsks = -1
    /\ last = R0
    /\ pwPassed = DOMAIN users
    /\ mfaPassed = {j \in DOMAIN users : users[j].mfaVerified}
    /\ mfaFailedWith = {}
    /\ run = [i \in DOMAIN users |-> 0]

NextPublic ==
    \/ /\ files = <<>>
       /\ \E t \in Presentable, a \in AccessLevels :
             uploadFile(t, <<"report">>, a, "Op3nSesame!")
    \/ \E t \in Presentable, i \in DOMAIN files :
            shareFile(t, i, [given |-> FALSE, value |-> 0])
    \/ \E t \in Presentable, i \in DOMAIN files : deleteFile(t, i, TRUE)
    \/ \E k \in ShareTokens : getSharedFile(k)
    \/ \E t \in Presentable, i \in DOMAIN files : downloadFile(t, i, "Op3nSesame!")
    \/ \E t \in Presentable, i \in DOMAIN files :
            keyExchangeDownload(t, i, "rsa-pub")
    \/ Tick

SpecPublic == InitPublic /\ [][NextPublic]_vars

(* a full-access token the service issued, unexpired when presented *)
FullAccess(tok, time) ==
    /\ tok \in tokens
    /\ tok.sig = "valid"
    /\ ~tok.mfaPending
    /\ time < tok.exp

(* the fields of a File document that hold content or encryption material *)
SecretFields ==
    {"encryptedPath", "iv", "authTag", "fileSalt", "encryptedKey", "sha256Hash"}

FileOps == {"upload", "download", "keyExchange", "share", "delete"}

(* C29: a request that carries no valid full-access token gets no file     *)
(* content and no encryption material, and a share token alone yields      *)
(* only the file's id, name, size, type, owner handle and expiry.          *)
C29_NoContentWithoutAccessToken ==
    /\ (last.op \in FileOps /\ ~FullAccess(last.token, last.time)) =>
            /\ last.status \in {401, 403}
            /\ last.body = NoBody
            /\ last.info = {}
    /\ last.op = "getShared" =>
            /\ last.body = NoBody
            /\ last.info \cap SecretFields = {}
            /\ last.status = 200 =>
                  last.info = {"_id", "originalName", "size", "mimeType",
                               "owner.username", "shareExpiry"}

(* a valid share token is looked up after a request without a token was    *)
(* turned away: the state after the lookup                                 *)
C29_Witness ==
    /\ last.op = "getShared"
    /\ last.status = 200
    /\ last.file.shareExpiry > last.time
    /\ last.info # {}

(* C29 as stated: a share token yields only the name, size, type, owner    *)
(* handle and expiry.                                                      *)
C29_AsStated ==
    (last.op = "getShared" /\ last.status = 200) =>
        last.info = {"originalName", "size", "mimeType", "owner.username",
                     "shareExpiry"}

----------------------------------------------------------------------------
(* Listing: GET /api/files after uploads and deletes *)
DEFAULT_PAGE == 1
DEFAULT_LIMIT == 20

(* the query getFiles builds from the caller's stored role; the           *)
(* accessLevel parameter narrows it for an admin only                     *)
roleFilter(uid, accessLevel, f) ==
    IF users[uid].role = "admin"
    THEN accessLevel = "" \/ f.accessLevel = accessLevel
    ELSE IF users[uid].role = "premium"
    THEN f.owner = uid \/ f.accessLevel = "public"
    ELSE f.accessLevel = "public"

(* .sort({ createdAt: -1 }): newest first *)
RECURSIVE newestFirst(_)
newestFirst(S) ==
    IF S = {} THEN <<>>
    ELSE LET newest == CHOOSE i \in S : \A j \in S : j <= i IN
         <<newest>> \o newestFirst(S \ {newest})

(* File.find(query): the pre(/^find/) hook adds isDeleted: { $ne: true } *)
find(uid, accessLevel) ==
    newestFirst({i \in DOMAIN files : /\ roleFilter(uid, accessLevel, files[i])
                                      /\ ~files[i].isDeleted})

(* .skip((page - 1) * limit).limit(Number(limit)) *)
skipLimit(found, page, limit) ==
    LET first == (page - 1) * limit + 1
        end == IF first + limit - 1 < Len(found) THEN first + limit - 1
               ELSE Len(found)
    IN SubSeq(found, first, end)

(* File.countDocuments(query): the hook is registered for the operations  *)
(* whose name starts with find, and countDocuments is not one of them     *)
countDocuments(uid, accessLevel) ==
    Cardinality({i \in DOMAIN files : roleFilter(uid, accessLevel, files[i])})

(* router.use(verifyToken); router.get('/', getFiles) *)
getFiles(tok, accessLevel, page, limit) ==
    LET gate == verifyToken(tok)
        uid == gate.uid
        req == [Req("getFiles") EXCEPT !.uid = uid, !.token = tok,
                    !.accessLevel = accessLevel,
                    !.role = IF uid # 0 THEN users[uid].role ELSE "none"]
    IN
    /\ FileHistUnchanged
    /\ UNCHANGED <<files, blobs, orig>>
    /\ IF gate.status # 0 THEN last' = [req EXCEPT !.status = gate.status]
       ELSE last' = [req EXCEPT
                        !.status = 200,
                        !.listed = skipLimit(find(uid, accessLevel), page, limit),
                        !.total = countDocuments(uid, accessLevel)]

LevelFilters == AccessLevels \cup {""}
Pages == {DEFAULT_PAGE, DEFAULT_PAGE + 1}
Limits == {1, DEFAULT_LIMIT}

NextList ==
    \/ \E t \in Uploaders, a \in AccessLevels :
            uploadFile(t, <<"report">>, a, "Op3nSesame!")
    \/ \E t \in Members, i \in DOMAIN files : deleteFile(t, i, TRUE)
    \/ \E t \in Requesters, a \in LevelFilters, page \in Pages, limit \in Limits :
            getFiles(t, a, page, limit)

SpecList == InitFiles /\ [][NextList]_vars

(* the files a listing is meant to cover: matching the caller's filter    *)
(* and not soft-deleted                                                    *)
Listable(uid, accessLevel) ==
    {i \in DOMAIN files : /\ roleFilter(uid, accessLevel, files[i])
                          /\ ~files[i].isDeleted}

(* C30: every getFiles answer reports as pagination total the number of   *)
(* files that match the caller's role filter and are not soft-deleted,    *)
(* and no soft-deleted file is in the returned list.                      *)
C30_TotalCountsLiveFiles ==
    (last.op = "getFiles" /\ last.status = 200) =>
        /\ last.total = Cardinality(Listable(last.uid, last.accessLevel))
        /\ \A k \in DOMAIN last.listed : ~files[last.listed[k]].isDeleted

(* the half that holds: the returned list has no soft-deleted file, and   *)
(* only files matching the filter                                         *)
ListHidesDeleted ==
    (last.op = "getFiles" /\ last.status = 200) =>
        \A k \in DOMAIN last.listed :
            last.listed[k] \in Listable(last.uid, last.accessLevel)

(* what the total is instead: soft-deleted files that match are counted   *)
TotalCountsDeleted ==
    (last.op = "getFiles" /\ last.status = 200) =>
        last.total = Cardinality(Listable(last.uid, last.accessLevel))
                     + Cardinality({i \in DOMAIN files :
                            /\ roleFilter(last.uid, last.accessLevel, files[i])
                            /\ files[i].isDeleted})

----------------------------------------------------------------------------
(* Audit writes that fail: the AuditLog collection refuses writes for a    *)
(* while, and audited requests arrive meanwhile                            *)

(* auditLogSchema.statics.log: try { return await this.create(...) }       *)
(* catch { console.error(...) }; up tells whether create succeeds          *)
AuditLog_log_rethrows(up) ==
    IF up THEN [threw |-> FALSE, created |-> TRUE]
    ELSE [threw |-> TRUE, created |-> FALSE]

AuditLog_log(up) ==
    IF up THEN [threw |-> FALSE, created |-> TRUE]
    ELSE [threw |-> FALSE, created |-> FALSE]

(* a handler whose first await AuditLog.log(...) comes before any write:   *)
(* the call sits in the handler's try block, so a rejection would pass     *)
(* control to its catch, which answers 500; otherwise the handler runs on  *)
audited(op, handler) ==
    IF AuditLog_log(auditUp).threw
    THEN /\ last' = [Req(op) EXCEPT !.status = 500]
         /\ UNCHANGED <<users, tokens, now, auditUp, files, blobs, reg, jobs, orig,
                        adminAsks, pwPassed, mfaPassed, mfaFailedWith, run>>
    ELSE handler

(* the collection stops accepting writes, or accepts them again *)
storeFails ==
    /\ auditUp
    /\ auditUp' = FALSE
    /\ last' = R0
    /\ UNCHANGED <<users, tokens, now, files, blobs, reg, jobs, orig, adminAsks,
                   pwPassed, mfaPassed, mfaFailedWith, run>>

storeRecovers ==
    /\ ~auditUp
    /\ auditUp' = TRUE
    /\ last' = R0
    /\ UNCHANGED <<users, tokens, now, files, blobs, reg, jobs, orig, adminAsks,
                   pwPassed, mfaPassed, mfaFailedWith, run>>

(* one stored vault file of pat; quinn's account is locked *)
InitAudit ==
    /\ now = 0
    /\ auditUp = TRUE
    /\ users = <<Member("root", "root@fv.io", "admin"),
                 Member("pat", "pat@fv.io", "premium"),
                 [Member("quinn", "quinn@fv.io", "premium")
                    EXCEPT !.loginAttempts = MAX_LOGIN_ATTEMPTS,
                           !.lockUntil = LOCK_TIME],
                 Member("gus", "gus@fv.io", "guest")>>
    /\ tokens = {accessToken(i, users[i].role) : i \in DOMAIN users}
    /\ files = <<LegacyFile(2, generateSalt(1), <<"report">>, "Op3nSesame!")>>
    /\ blobs = <<encryptFile(<<"report">>, generateKey(1), 1).encryptedData>>
    /\ orig = <<[content |-> <<"report">>, password |-> "Op3nSesame!",
                 file |-> files[1], blob |-> blobs[1]]>>
    /\ reg = <<>>
    /\ jobs = <<>>
    /\ adminAsks = -1
    /\ last = R0
    /\ pwPassed = DOMAIN users
    /\ mfaPassed = DOMAIN users
    /\ mfaFailedWith = {}
    /\ run = [i \in DOMAIN users |->
                IF isLocked(users[i]) THEN MAX_LOGIN_ATTEMPTS ELSE 0]

(* requests that reach their handler's AuditLog.log call *)
SignedIn == {t \in tokens : verifyToken(t).status = 0}
LockedEmails == {users[i].email : i \in {i \in DOMAIN users : isLocked(users[i])}}

NextAudit ==
    \/ \E t \in SignedIn : audited("logout", logout(t))
    \/ \E t \in SignedIn \cap Owners :
            audited("download", downloadFile(t, 1, "Op3nSesame!"))
    \/ \E e \in LockedEmails, p \in Passwords : audited("login", login(e, p))
    \/ storeFails
    \/ storeRecovers
    \/ Tick

SpecAudit == InitAudit /\ [][NextAudit]_vars

====
